---- MODULE Spec2Model ----
(***************************************************************************)
(* A model of the XenonLang front end and evaluator.                       *)
(*                                                                         *)
(* The tree-walking interpreter (src/src/interpreter.py) is modelled as an *)
(* abstract machine: `ctrl` is what the interpreter is doing (evaluating a *)
(* node, returning a value to its caller, or raising a Python exception),  *)
(* `kont` is the stack of suspended interpret_* activations, `call_stack`  *)
(* is Interpreter.call_stack, `functions` is Interpreter.functions and     *)
(* `stdout` is what print() has written.  The recursive-descent parser     *)
(* (src/src/parser.py) is modelled by a second machine: `tokens`, `pos`    *)
(* and `current_token` are the fields of Parser, `parse_stack` is the      *)
(* stack of running parse_* methods and `parse_result` is how parse()      *)
(* ended.  The lexer (src/src/lexer.py) is a third machine: `code`,        *)
(* `lex_pos` (Lexer.pos), `line`, `column` and `token_list` are the fields *)
(* of Lexer and `lex_result` is how lex_analysis() ended.  `classes`,      *)
(* `interfaces`, `current_class` and `super_class_stack` are the fields of *)
(* Interpreter of those names; current_class = "" stands for None.         *)
(***************************************************************************)
EXTENDS Integers, Sequences, FiniteSets, TLC

VARIABLES prog, ctrl, kont, call_stack, functions, classes, interfaces,
          current_class, super_class_stack, stdout,
          tokens, pos, current_token, parse_stack, parse_result,
          code, lex_pos, line, column, token_list, lex_result

vars == <<prog, ctrl, kont, call_stack, functions, classes, interfaces,
          current_class, super_class_stack, stdout,
          tokens, pos, current_token, parse_stack, parse_result,
          code, lex_pos, line, column, token_list, lex_result>>
\* what class and interface definitions change
cvars == <<classes, interfaces, current_class, super_class_stack>>
ivars == <<prog, ctrl, kont, call_stack, functions, cvars, stdout>>
pvars == <<tokens, pos, current_token, parse_stack, parse_result>>
lvars == <<code, lex_pos, line, column, token_list, lex_result>>
\* the front end: parser and lexer
fvars == <<pvars, lvars>>

(***************************************************************************)
(* Bounds of the model.                                                    *)
(***************************************************************************)
\* longest statement list drawn for the body of a generated program
MaxStmts == 2
\* largest loop limit / skipped index of the generated for-loops
MaxIter == 3
\* longest token sequence handed to the parser
MaxTokens == 7
\* longest source text handed to the lexer
MaxCode == 4
\* the divisors of the division programs are 0..MaxDivisor
MaxDivisor == 2

(***************************************************************************)
(* Runtime values.  A Python value is a record of its type name, its       *)
(* number (int, bool) and its text (str); BreakNode and ContinueNode       *)
(* objects are values too, since interpret() returns the node itself.      *)
(***************************************************************************)
IntV(n) == [t |-> "int", i |-> n, s |-> "", f |-> <<>>]
StrV(x) == [t |-> "str", i |-> 0, s |-> x, f |-> <<>>]
BoolV(b) == [t |-> "bool", i |-> IF b THEN 1 ELSE 0, s |-> "", f |-> <<>>]
\* a float that is a whole number, n.0
FloatV(n) == [t |-> "float", i |-> n, s |-> "", f |-> <<>>]
NoneV == [t |-> "NoneType", i |-> 0, s |-> "", f |-> <<>>]
BreakV == [t |-> "BreakNode", i |-> 0, s |-> "", f |-> <<>>]
ContinueV == [t |-> "ContinueNode", i |-> 0, s |-> "", f |-> <<>>]
\* a dict whose first key is '__class__': s is the class tag and f the
\* other items, <<key, value>> pairs in insertion order
DictV(class_name, items) == [t |-> "dict", i |-> 0, s |-> class_name, f |-> items]
\* instance = {'__class__': class_name}
ObjV(class_name) == DictV(class_name, <<>>)
\* d[key] = value on a dict
SetItem(d, key, value) ==
  IF \E j \in 1..Len(d.f) : d.f[j][1] = key
  THEN [d EXCEPT !.f = [j \in 1..Len(d.f) |->
                          IF d.f[j][1] = key THEN <<key, value>> ELSE d.f[j]]]
  ELSE [d EXCEPT !.f = Append(d.f, <<key, value>>)]
\* a name that a frame (a Python dict) does not hold
Unbound == [t |-> "unbound", i |-> 0, s |-> "", f |-> <<>>]

\* isinstance(v, int): bool is a subclass of int in Python
IsInt(v) == v.t \in {"int", "bool"}
\* isinstance(result, ReturnNode)
IsReturnNode(v) == v.t = "ReturnNode"
\* isinstance(result, (ReturnNode, BreakNode, ContinueNode))
IsSignal(v) == v.t \in {"ReturnNode", "BreakNode", "ContinueNode"}
\* ReturnNode.expression of a returned ReturnNode
ReturnExpression(v) == v.expression

\* Python's repr(value), as str() of a dict applies it to the items
RECURSIVE PyRepr(_)
RECURSIVE ItemsRepr(_, _)
ItemsRepr(items, j) ==
  IF j > Len(items) THEN ""
  ELSE ", '" \o items[j][1] \o "': " \o PyRepr(items[j][2]) \o ItemsRepr(items, j + 1)
PyRepr(v) ==
  CASE v.t = "int" -> ToString(v.i)
    [] v.t = "str" -> "'" \o v.s \o "'"
    [] v.t = "bool" -> (IF v.i = 1 THEN "True" ELSE "False")
    [] v.t = "float" -> ToString(v.i) \o ".0"
    [] v.t = "NoneType" -> "None"
    [] v.t = "dict" -> "{'__class__': '" \o v.s \o "'" \o ItemsRepr(v.f, 1) \o "}"
    [] OTHER -> v.t \o "()"

\* Python's str(value), as print() and throw apply it
PyStr(v) == IF v.t = "str" THEN v.s ELSE PyRepr(v)

\* Python's truth value, as `while ... or self.interpret(node.cond)` tests it
Truthy(v) ==
  CASE v.t \in {"int", "bool"} -> v.i # 0
    [] v.t = "str" -> v.s # ""
    [] v.t = "NoneType" -> FALSE
    [] OTHER -> TRUE

\* Python's left == right
PyEq(a, b) ==
  CASE IsInt(a) /\ IsInt(b) -> a.i = b.i
    [] a.t = "str" /\ b.t = "str" -> a.s = b.s
    [] a.t = "dict" /\ b.t = "dict" -> a.s = b.s /\ a.f = b.f
    [] OTHER -> a.t = b.t

(***************************************************************************)
(* Exceptions: the Python class raised and str(e).                         *)
(***************************************************************************)
NoExc == [cls |-> "", msg |-> ""]
\* the tail format_error appends: file, line, column, source line and caret
Where == "\n  File: t.xn\n  Line: 1, Column: 1\n  <code>\n  ^"
format_error(error_type, message) == error_type \o ": " \o message \o Where
RuntimeErrorOf(message) ==
  [cls |-> "RuntimeError", msg |-> format_error("RuntimeError", message)]
TypeErrorOf(message) ==
  [cls |-> "TypeError", msg |-> format_error("TypeError", message)]

(***************************************************************************)
(* AST nodes (src/src/ast.py).  An absent optional child is NoNode, an     *)
(* absent type annotation is NoType.                                       *)
(***************************************************************************)
NoNode == [k |-> "None"]
NoType == [value |-> "", type |-> "", is_nullable |-> FALSE]
TypeToken(name, kind) == [value |-> name, type |-> kind, is_nullable |-> FALSE]
IntType == TypeToken("int", "INT")
StringType == TypeToken("string", "STRING_TYPE")
VoidType == TypeToken("void", "VOID")

NumberNode(n) == [k |-> "NumberNode", value |-> n]
StringNode(x) == [k |-> "StringNode", value |-> x]
BooleanNode(b) == [k |-> "BooleanNode", value |-> b]
NullNode == [k |-> "NullNode"]
VariableNode(name) == [k |-> "VariableNode", variable |-> name]
AssignNode(name, e) == [k |-> "AssignNode", variable |-> name, expression |-> e]
VarDeclarationNode(name, ty, e) ==
  [k |-> "VarDeclarationNode", variable |-> name, type_token |-> ty, expr |-> e]
ValDeclarationNode(name, ty, e) ==
  [k |-> "ValDeclarationNode", variable |-> name, type_token |-> ty, expr |-> e]
ConstDeclarationNode(name, ty, e) ==
  [k |-> "ConstDeclarationNode", variable |-> name, type_token |-> ty, expr |-> e]
BinaryOperationNode(op, l, r) ==
  [k |-> "BinaryOperationNode", operator |-> op, left_node |-> l, right_node |-> r]
IfNode(c, th, el) ==
  [k |-> "IfNode", condition |-> c, then_branch |-> th, else_branch |-> el]
ForNode(init, cond, step, body) ==
  [k |-> "ForNode", init |-> init, cond |-> cond, step |-> step, body |-> body]
WhileNode(cond, body) == [k |-> "WhileNode", condition |-> cond, body |-> body]
DoWhileNode(body, cond) == [k |-> "DoWhileNode", body |-> body, condition |-> cond]
BreakNode == [k |-> "BreakNode"]
ContinueNode == [k |-> "ContinueNode"]
CatchNode(name, ty, body) ==
  [k |-> "CatchNode", exception_var |-> name, type_token |-> ty, body |-> body]
TryNode(body, catches, fin) ==
  [k |-> "TryNode", try_block |-> body, catches |-> catches, finally_block |-> fin]
ThrowNode(e) == [k |-> "ThrowNode", expression |-> e]
ParamNode(name, ty, nullable) ==
  [k |-> "ParamNode", name |-> name, type_token |-> ty, is_nullable |-> nullable]
FunctionDefNode(name, params, rt, body) ==
  [k |-> "FunctionDefNode", name |-> name, params |-> params,
   return_type |-> rt, body |-> body]
FunctionCallNode(name, args) == [k |-> "FunctionCallNode", func |-> name, args |-> args]
ReturnNode(e) == [k |-> "ReturnNode", expression |-> e]
PrintNode(e) == [k |-> "PrintNode", expression |-> e]
BlockNode(stmts) == [k |-> "BlockNode", statements |-> stmts]
ProgramNode(stmts) == [k |-> "ProgramNode", statements |-> stmts]
\* superclass is the name of the superclass, "" when there is none;
\* interfaces are the names of the interfaces
ClassNode(name, superclass, ifaces, members) ==
  [k |-> "ClassNode", name |-> name, superclass |-> superclass,
   interfaces |-> ifaces, members |-> members]
InterfaceNode(name) == [k |-> "InterfaceNode", name |-> name]
ThisNode == [k |-> "ThisNode"]
SuperNode == [k |-> "SuperNode"]
\* new type_name()
NewNode(type_name) ==
  [k |-> "NewNode", type_token |-> TypeToken(type_name, "VARIABLE"), args |-> <<>>]
InstanceOfNode(e, type_token) ==
  [k |-> "InstanceOfNode", expression |-> e, type_token |-> type_token]

(***************************************************************************)
(* Scope frames.  A frame is a Python dict: here a function over the names *)
(* the programs use, Unbound where the dict has no entry.  self.variables  *)
(* always aliases call_stack[-1].                                          *)
(***************************************************************************)
Names == {"x", "y", "i", "e", "a", "this"}
FuncNames == {"f", "g"}
ClassNames == {"Dog", "Cat", "Animal"}
EmptyFrame == [n \in Names |-> Unbound]

push_scope(cs) == Append(cs, EmptyFrame)
pop_scope(cs) == SubSeq(cs, 1, Len(cs) - 1)
\* variant of Bind that overwrites the binding of an enclosing frame when
\* one holds the name; C17_InnerDeclarationShadows tells it from the code
Bind_where_held(cs, name, value) ==
  IF \E j \in 1..Len(cs) : cs[j][name].t # "unbound"
  THEN [cs EXCEPT ![CHOOSE j \in 1..Len(cs) : cs[j][name].t # "unbound"] =
                     [@ EXCEPT ![name] = value]]
  ELSE [cs EXCEPT ![Len(cs)] = [@ EXCEPT ![name] = value]]

\* self.variables[name] = value
Bind(cs, name, value) == [cs EXCEPT ![Len(cs)] = [@ EXCEPT ![name] = value]]

\* the frames `for scope in reversed(self.call_stack): if name in scope` can stop at
Holding(cs, name) == {j \in 1..Len(cs) : cs[j][name].t # "unbound"}
Innermost(S) == CHOOSE j \in S : \A h \in S : h <= j

get_variable(cs, name) ==
  IF Holding(cs, name) = {}
  THEN [exc |-> RuntimeErrorOf("Undefined variable: " \o name), val |-> NoneV]
  ELSE [exc |-> NoExc, val |-> cs[Innermost(Holding(cs, name))][name]]

\* variant of set_variable that binds an unbound name in the innermost frame
\* instead of raising (what interpret_assign of the older Interpreter kept in
\* parser.py does); C2_AssignUndeclared tells it from the code
set_variable_creates(cs, name, value) ==
  IF Holding(cs, name) = {}
  THEN [exc |-> NoExc, cs |-> Bind(cs, name, value)]
  ELSE [exc |-> NoExc,
        cs |-> [cs EXCEPT ![Innermost(Holding(cs, name))] = [@ EXCEPT ![name] = value]]]

set_variable(cs, name, value) ==
  IF Holding(cs, name) = {}
  THEN [exc |-> RuntimeErrorOf("Undefined variable: " \o name), cs |-> cs]
  ELSE [exc |-> NoExc,
        cs |-> [cs EXCEPT ![Innermost(Holding(cs, name))] = [@ EXCEPT ![name] = value]]]

(***************************************************************************)
(* check_type: NoExc when the value passes, else the exception raised.     *)
(***************************************************************************)
ExpectedType(type_token) ==
  IF type_token.value = "str" THEN "string" ELSE type_token.value

check_type(value, type_token) ==
  LET expected_type == ExpectedType(type_token)
      mismatch == TypeErrorOf("Expected " \o expected_type \o ", got " \o value.t)
  IN  IF value.t = "NoneType" /\ expected_type # "void"
      THEN IF ~type_token.is_nullable
           THEN TypeErrorOf("Expected " \o expected_type \o ", got None")
           ELSE NoExc
      ELSE CASE expected_type \in {"float", "double"} ->
                  (IF IsInt(value) \/ value.t = "float" THEN NoExc ELSE mismatch)
             [] expected_type = "int" -> (IF IsInt(value) THEN NoExc ELSE mismatch)
             [] expected_type = "string" -> (IF value.t = "str" THEN NoExc ELSE mismatch)
             [] expected_type = "boolean" -> (IF value.t = "bool" THEN NoExc ELSE mismatch)
             [] expected_type = "void" ->
                  (IF value.t = "NoneType" THEN NoExc ELSE mismatch)
             [] expected_type = "any" -> NoExc
             [] type_token.type = "VARIABLE" ->
                  (IF value.t = "dict" /\ value.s = expected_type THEN NoExc
                   ELSE TypeErrorOf("Expected class " \o expected_type
                                    \o ", got " \o value.t))
             [] OTHER -> RuntimeErrorOf("Unknown type: " \o expected_type)

(***************************************************************************)
(* interpret_binary_op once both operands are values.  A Python TypeError  *)
(* of the operation is re-raised as a RuntimeError by the except clause.   *)
(***************************************************************************)
OperandError(op, sym, left, right) ==
  RuntimeErrorOf("Type error in operation " \o op \o ": unsupported operand type(s) for "
                 \o sym \o ": '" \o left.t \o "' and '" \o right.t \o "'")

\* the exception Python raises for a zero divisor of % and //
ZeroDivisionError(msg) == [cls |-> "ZeroDivisionError", msg |-> msg]

apply_binary_op(op, left, right) ==
  CASE op = "PLUS" ->
         (IF left.t = "str" \/ right.t = "str"
          THEN [exc |-> NoExc, val |-> StrV(PyStr(left) \o PyStr(right))]
          ELSE IF IsInt(left) /\ IsInt(right)
          THEN [exc |-> NoExc, val |-> IntV(left.i + right.i)]
          ELSE [exc |-> OperandError(op, "+", left, right), val |-> NoneV])
    [] op = "MINUS" ->
         (IF IsInt(left) /\ IsInt(right)
          THEN [exc |-> NoExc, val |-> IntV(left.i - right.i)]
          ELSE [exc |-> OperandError(op, "-", left, right), val |-> NoneV])
    [] op = "DIVIDE" ->
         \* `if right == 0: raise RuntimeError`, then left / right, a float;
         \* the quotients of the programs are whole numbers
         (IF IsInt(right) /\ right.i = 0
          THEN [exc |-> RuntimeErrorOf("Division by zero"), val |-> NoneV]
          ELSE IF IsInt(left) /\ IsInt(right)
          THEN [exc |-> NoExc, val |-> FloatV(left.i \div right.i)]
          ELSE [exc |-> OperandError(op, "/", left, right), val |-> NoneV])
    [] op = "MODULO" /\ IsInt(left) /\ IsInt(right) ->
         \* left % right with no test of right: Python raises
         \* ZeroDivisionError, which `except TypeError` does not convert
         (IF right.i = 0
          THEN [exc |-> ZeroDivisionError("integer modulo by zero"), val |-> NoneV]
          ELSE [exc |-> NoExc, val |-> IntV(left.i % right.i)])
    [] op = "EQUAL" -> [exc |-> NoExc, val |-> BoolV(PyEq(left, right))]
    [] op = "NOT_EQUAL" -> [exc |-> NoExc, val |-> BoolV(~PyEq(left, right))]
    [] op = "LESS" /\ IsInt(left) /\ IsInt(right) ->
         [exc |-> NoExc, val |-> BoolV(left.i < right.i)]
    [] op = "LESS" /\ left.t # right.t ->
         [exc |-> OperandError(op, "<", left, right), val |-> NoneV]

(***************************************************************************)
(* Parameter binding of a call: the frame after binding every parameter,   *)
(* or the first exception (type mismatch, null for a non-nullable).        *)
(***************************************************************************)
RECURSIVE bind_params(_, _, _, _)
bind_params(params, args, j, frame) ==
  IF j > Len(params) THEN [exc |-> NoExc, frame |-> frame]
  ELSE LET param == params[j]
           arg == args[j]
           tyerr == IF param.type_token.value # ""
                    THEN check_type(arg, param.type_token) ELSE NoExc
       IN  IF tyerr.cls # "" THEN [exc |-> tyerr, frame |-> frame]
           ELSE IF arg.t = "NoneType" /\ ~param.is_nullable
           THEN [exc |-> RuntimeErrorOf("Parameter " \o param.name \o " is not nullable"),
                 frame |-> frame]
           ELSE bind_params(params, args, j + 1, [frame EXCEPT ![param.name] = arg])

(***************************************************************************)
(* The interpreter as a machine.  ctrl.m is "eval" (interpret(node) was    *)
(* just called), "value" (an interpret call returns ctrl.val to the        *)
(* activation on top of kont), "raise" (ctrl.exc propagates through the    *)
(* activation on top of kont) or "halt" (the top-level interpret call      *)
(* returned ctrl.val, or ctrl.exc escaped it).                             *)
(***************************************************************************)
Eval(n) == [m |-> "eval", node |-> n, val |-> NoneV, exc |-> NoExc]
Value(v) == [m |-> "value", node |-> NoNode, val |-> v, exc |-> NoExc]
Raise(e) == [m |-> "raise", node |-> NoNode, val |-> NoneV, exc |-> e]
Halt(c) == [m |-> "halt", node |-> NoNode, val |-> c.val, exc |-> c.exc]
Outcome(r) == IF r.exc.cls # "" THEN Raise(r.exc) ELSE Value(r.val)

IsNone(n) == n.k = "None"
Top == kont[Len(kont)]
Pop(st) == SubSeq(st, 1, Len(st) - 1)
Replace(st, f) == [st EXCEPT ![Len(st)] = f]

Evaluating(kind) == ctrl.m = "eval" /\ ctrl.node.k = kind
Returning(kind) == ctrl.m = "value" /\ kont # <<>> /\ Top.k = kind
Raising(kind) == ctrl.m = "raise" /\ kont # <<>> /\ Top.k = kind

\* suspended activations
ProgramK(stmts, i, returning) ==
  [k |-> "ProgramK", statements |-> stmts, i |-> i, returning |-> returning]
BlockK(stmts, i) == [k |-> "BlockK", statements |-> stmts, i |-> i]
AssignK(node) == [k |-> "AssignK", node |-> node]
VarDeclK(node) == [k |-> "VarDeclK", node |-> node]
BinaryK(node, phase, left) ==
  [k |-> "BinaryK", node |-> node, phase |-> phase, left |-> left]
IfK(node) == [k |-> "IfK", node |-> node]
ForK(node, phase) == [k |-> "ForK", node |-> node, phase |-> phase]
WhileK(node, phase) == [k |-> "WhileK", node |-> node, phase |-> phase]
DoWhileK(node, phase) == [k |-> "DoWhileK", node |-> node, phase |-> phase]
TryK(node, phase, pending) ==
  [k |-> "TryK", node |-> node, phase |-> phase, pending |-> pending]
ThrowK(node) == [k |-> "ThrowK", node |-> node]
PrintK(node) == [k |-> "PrintK", node |-> node]
InstanceOfK(node) == [k |-> "InstanceOfK", node |-> node]
\* the member loop of interpret_class_def at members[i]; prev_class is its local
ClassK(node, i, prev_class) ==
  [k |-> "ClassK", node |-> node, i |-> i, prev_class |-> prev_class]
\* the member loop of interpret_new at class_def.members[i]
NewK(node, class_def, i, instance) ==
  [k |-> "NewK", node |-> node, class_def |-> class_def, i |-> i, instance |-> instance]
CallK(node, func, phase, vals) ==
  [k |-> "CallK", node |-> node, func |-> func, phase |-> phase, vals |-> vals]

\* the activations that hold a frame of call_stack they pushed
HasScope(f) ==
  \/ f.k = "BlockK"
  \/ f.k = "NewK"
  \/ f.k = "ForK" /\ f.phase # "init"
  \/ f.k = "TryK" /\ f.phase = "catch"
  \/ f.k = "CallK" /\ f.phase \in {"body", "return"}

----------------------------------------------------------------------------
(* interpret(ProgramNode): the statements in order *)
interpret_program ==
  /\ Evaluating("ProgramNode")
  /\ IF ctrl.node.statements = <<>>
     THEN /\ ctrl' = Halt(Value(NoneV))
          /\ kont' = kont
     ELSE /\ kont' = Append(kont, ProgramK(ctrl.node.statements, 1, FALSE))
          /\ ctrl' = Eval(ctrl.node.statements[1])
  /\ UNCHANGED <<prog, call_stack, functions, cvars, stdout, fvars>>

interpret_program_next ==
  /\ Returning("ProgramK")
  /\ IF Top.returning
     THEN /\ ctrl' = Halt(ctrl)
          /\ kont' = Pop(kont)
     ELSE IF IsReturnNode(ctrl.val)
     THEN /\ ctrl' = IF IsNone(ReturnExpression(ctrl.val)) THEN Halt(Value(NoneV))
                     ELSE Eval(ReturnExpression(ctrl.val))
          /\ kont' = IF IsNone(ReturnExpression(ctrl.val)) THEN Pop(kont)
                     ELSE Replace(kont, [Top EXCEPT !.returning = TRUE])
     ELSE IF Top.i < Len(Top.statements)
     THEN /\ ctrl' = Eval(Top.statements[Top.i + 1])
          /\ kont' = Replace(kont, [Top EXCEPT !.i = @ + 1])
     ELSE /\ ctrl' = Halt(Value(NoneV))
          /\ kont' = Pop(kont)
  /\ UNCHANGED <<prog, call_stack, functions, cvars, stdout, fvars>>

(* an exception leaves the top-level interpret call *)
interpret_program_raise ==
  /\ Raising("ProgramK")
  /\ ctrl' = Halt(ctrl)
  /\ kont' = Pop(kont)
  /\ UNCHANGED <<prog, call_stack, functions, cvars, stdout, fvars>>

(* NumberNode, StringNode, BooleanNode, NullNode *)
interpret_literal ==
  /\ ctrl.m = "eval"
  /\ ctrl.node.k \in {"NumberNode", "StringNode", "BooleanNode", "NullNode"}
  /\ ctrl' = Value(CASE ctrl.node.k = "NumberNode" -> IntV(ctrl.node.value)
                     [] ctrl.node.k = "StringNode" -> StrV(ctrl.node.value)
                     [] ctrl.node.k = "BooleanNode" -> BoolV(ctrl.node.value)
                     [] ctrl.node.k = "NullNode" -> NoneV)
  /\ UNCHANGED <<prog, kont, call_stack, functions, cvars, stdout, fvars>>

(* BreakNode, ContinueNode: interpret returns the node *)
interpret_break_continue ==
  /\ ctrl.m = "eval"
  /\ ctrl.node.k \in {"BreakNode", "ContinueNode"}
  /\ ctrl' = Value(IF ctrl.node.k = "BreakNode" THEN BreakV ELSE ContinueV)
  /\ UNCHANGED <<prog, kont, call_stack, functions, cvars, stdout, fvars>>

(* ReturnNode: interpret dispatches to interpret_return, which evaluates the
   expression and returns its value *)
interpret_return ==
  /\ Evaluating("ReturnNode")
  /\ ctrl' = IF IsNone(ctrl.node.expression) THEN Value(NoneV)
             ELSE Eval(ctrl.node.expression)
  /\ UNCHANGED <<prog, kont, call_stack, functions, cvars, stdout, fvars>>

interpret_variable ==
  /\ Evaluating("VariableNode")
  /\ ctrl' = Outcome(get_variable(call_stack, ctrl.node.variable))
  /\ UNCHANGED <<prog, kont, call_stack, functions, cvars, stdout, fvars>>

interpret_assign ==
  /\ Evaluating("AssignNode")
  /\ kont' = Append(kont, AssignK(ctrl.node))
  /\ ctrl' = Eval(ctrl.node.expression)
  /\ UNCHANGED <<prog, call_stack, functions, cvars, stdout, fvars>>

interpret_assign_set ==
  /\ Returning("AssignK")
  /\ LET r == set_variable(call_stack, Top.node.variable, ctrl.val)
     IN  /\ call_stack' = r.cs
         /\ ctrl' = IF r.exc.cls # "" THEN Raise(r.exc) ELSE Value(ctrl.val)
  /\ kont' = Pop(kont)
  /\ UNCHANGED <<prog, functions, cvars, stdout, fvars>>

interpret_var_declaration ==
  /\ Evaluating("VarDeclarationNode")
  /\ kont' = Append(kont, VarDeclK(ctrl.node))
  /\ ctrl' = IF IsNone(ctrl.node.expr) THEN Value(NoneV) ELSE Eval(ctrl.node.expr)
  /\ UNCHANGED <<prog, call_stack, functions, cvars, stdout, fvars>>

interpret_var_declaration_bind ==
  /\ Returning("VarDeclK")
  /\ LET tyerr == IF Top.node.type_token.value # ""
                  THEN check_type(ctrl.val, Top.node.type_token) ELSE NoExc
     IN  IF tyerr.cls # ""
         THEN /\ ctrl' = Raise(tyerr)
              /\ call_stack' = call_stack
         ELSE /\ ctrl' = Value(ctrl.val)
              /\ call_stack' = Bind(call_stack, Top.node.variable, ctrl.val)
  /\ kont' = Pop(kont)
  /\ UNCHANGED <<prog, functions, cvars, stdout, fvars>>

(* interpret_val_declaration and interpret_const_declaration: the
   initializer is always there; after it the code is that of
   interpret_var_declaration (check_type, then self.variables[name] = value),
   and nothing records that the name was declared with val or const *)
interpret_val_declaration ==
  /\ Evaluating("ValDeclarationNode")
  /\ kont' = Append(kont, VarDeclK(ctrl.node))
  /\ ctrl' = Eval(ctrl.node.expr)
  /\ UNCHANGED <<prog, call_stack, functions, cvars, stdout, fvars>>

interpret_const_declaration ==
  /\ Evaluating("ConstDeclarationNode")
  /\ kont' = Append(kont, VarDeclK(ctrl.node))
  /\ ctrl' = Eval(ctrl.node.expr)
  /\ UNCHANGED <<prog, call_stack, functions, cvars, stdout, fvars>>

interpret_binary_op ==
  /\ Evaluating("BinaryOperationNode")
  /\ kont' = Append(kont, BinaryK(ctrl.node, "left", NoneV))
  /\ ctrl' = Eval(ctrl.node.left_node)
  /\ UNCHANGED <<prog, call_stack, functions, cvars, stdout, fvars>>

interpret_binary_op_operand ==
  /\ Returning("BinaryK")
  /\ IF Top.phase = "left"
     THEN /\ kont' = Replace(kont, BinaryK(Top.node, "right", ctrl.val))
          /\ ctrl' = Eval(Top.node.right_node)
     ELSE /\ kont' = Pop(kont)
          /\ ctrl' = Outcome(apply_binary_op(Top.node.operator, Top.left, ctrl.val))
  /\ UNCHANGED <<prog, call_stack, functions, cvars, stdout, fvars>>

interpret_if ==
  /\ Evaluating("IfNode")
  /\ kont' = Append(kont, IfK(ctrl.node))
  /\ ctrl' = Eval(ctrl.node.condition)
  /\ UNCHANGED <<prog, call_stack, functions, cvars, stdout, fvars>>

interpret_if_branch ==
  /\ Returning("IfK")
  /\ kont' = Pop(kont)
  /\ ctrl' = IF ctrl.val.t # "bool"
             THEN Raise(RuntimeErrorOf("Condition must be boolean, got " \o ctrl.val.t))
             ELSE IF Truthy(ctrl.val) THEN Eval(Top.node.then_branch)
             ELSE IF ~IsNone(Top.node.else_branch) THEN Eval(Top.node.else_branch)
             ELSE Value(NoneV)
  /\ UNCHANGED <<prog, call_stack, functions, cvars, stdout, fvars>>

interpret_print ==
  /\ Evaluating("PrintNode")
  /\ kont' = Append(kont, PrintK(ctrl.node))
  /\ ctrl' = Eval(ctrl.node.expression)
  /\ UNCHANGED <<prog, call_stack, functions, cvars, stdout, fvars>>

interpret_print_write ==
  /\ Returning("PrintK")
  /\ stdout' = Append(stdout, PyStr(ctrl.val))
  /\ kont' = Pop(kont)
  /\ ctrl' = Value(NoneV)
  /\ UNCHANGED <<prog, call_stack, functions, cvars, fvars>>

interpret_throw ==
  /\ Evaluating("ThrowNode")
  /\ kont' = Append(kont, ThrowK(ctrl.node))
  /\ ctrl' = Eval(ctrl.node.expression)
  /\ UNCHANGED <<prog, call_stack, functions, cvars, stdout, fvars>>

interpret_throw_raise ==
  /\ Returning("ThrowK")
  /\ kont' = Pop(kont)
  /\ ctrl' = Raise(RuntimeErrorOf(PyStr(ctrl.val)))
  /\ UNCHANGED <<prog, call_stack, functions, cvars, stdout, fvars>>

interpret_function_def ==
  /\ Evaluating("FunctionDefNode")
  /\ functions' = [functions EXCEPT ![ctrl.node.name] = ctrl.node]
  /\ ctrl' = Value(NoneV)
  /\ UNCHANGED <<prog, kont, call_stack, cvars, stdout, fvars>>

(* interpret_class_def.  The class is registered and current_class is set
   before the superclass and the interfaces are looked up; members that are
   declarations or function definitions are interpreted in the scope the
   definition stands in; current_class and super_class_stack are put back
   after the last member, by no try/finally. *)
DeclarationNodes == {"VarDeclarationNode", "ValDeclarationNode", "ConstDeclarationNode"}

\* the next member at or after i whose kind is in kinds, Len(members) + 1 if none
NextMember(members, i, kinds) ==
  LET S == {j \in i..Len(members) : members[j].k \in kinds}
  IN  IF S = {} THEN Len(members) + 1 ELSE CHOOSE j \in S : \A h \in S : j <= h

\* the first of node.interfaces that is not in self.interfaces, 0 if none
UndefinedInterface(node, known) ==
  LET S == {j \in 1..Len(node.interfaces) : node.interfaces[j] \notin known}
  IN  IF S = {} THEN 0 ELSE CHOOSE j \in S : \A h \in S : j <= h

interpret_class_def ==
  /\ Evaluating("ClassNode")
  /\ LET node == ctrl.node
         registered == [classes EXCEPT ![node.name] = node]
         pushed == IF node.superclass # "" THEN Append(super_class_stack, node.superclass)
                   ELSE super_class_stack
         first == NextMember(node.members, 1, DeclarationNodes \cup {"FunctionDefNode"})
     IN  /\ classes' = registered
         /\ interfaces' = interfaces
         /\ IF node.superclass # "" /\ IsNone(registered[node.superclass])
            THEN /\ current_class' = node.name
                 /\ super_class_stack' = super_class_stack
                 /\ kont' = kont
                 /\ ctrl' = Raise(RuntimeErrorOf("Undefined superclass: " \o node.superclass))
            ELSE IF UndefinedInterface(node, interfaces) # 0
            THEN /\ current_class' = node.name
                 /\ super_class_stack' = pushed
                 /\ kont' = kont
                 /\ ctrl' = Raise(RuntimeErrorOf("Undefined interface: "
                              \o node.interfaces[UndefinedInterface(node, interfaces)]))
            ELSE IF first > Len(node.members)
            THEN \* no member to interpret: prev_class and the stack are put back
                 /\ current_class' = current_class
                 /\ super_class_stack' = super_class_stack
                 /\ kont' = kont
                 /\ ctrl' = Value(NoneV)
            ELSE /\ current_class' = node.name
                 /\ super_class_stack' = pushed
                 /\ kont' = Append(kont, ClassK(node, first, current_class))
                 /\ ctrl' = Eval(node.members[first])
  /\ UNCHANGED <<prog, call_stack, functions, stdout, fvars>>

(* a member of the class body returned: its result is dropped *)
interpret_class_def_next ==
  /\ Returning("ClassK")
  /\ LET node == Top.node
         j == NextMember(node.members, Top.i + 1, DeclarationNodes \cup {"FunctionDefNode"})
     IN  IF j > Len(node.members)
         THEN /\ current_class' = Top.prev_class
              /\ super_class_stack' = IF node.superclass # "" THEN Pop(super_class_stack)
                                      ELSE super_class_stack
              /\ kont' = Pop(kont)
              /\ ctrl' = Value(NoneV)
         ELSE /\ current_class' = current_class
              /\ super_class_stack' = super_class_stack
              /\ kont' = Replace(kont, ClassK(node, j, Top.prev_class))
              /\ ctrl' = Eval(node.members[j])
  /\ UNCHANGED <<prog, call_stack, functions, classes, interfaces, stdout, fvars>>

interpret_interface_def ==
  /\ Evaluating("InterfaceNode")
  /\ interfaces' = interfaces \cup {ctrl.node.name}
  /\ ctrl' = Value(NoneV)
  /\ UNCHANGED <<prog, kont, call_stack, functions, classes, current_class,
                 super_class_stack, stdout, fvars>>

(* interpret_new without arguments.  `this` and the instance are one dict:
   an item stored in the instance shows in `this`, which is rebound here
   whenever the instance changes. *)
interpret_new ==
  /\ Evaluating("NewNode")
  /\ LET class_name == ctrl.node.type_token.value
         class_def == classes[class_name]
         instance == ObjV(class_name)
         first == NextMember(class_def.members, 1, DeclarationNodes)
     IN  IF IsNone(class_def)
         THEN /\ ctrl' = Raise(RuntimeErrorOf("Undefined class: " \o class_name))
              /\ call_stack' = call_stack
              /\ kont' = kont
         ELSE IF first > Len(class_def.members)
         THEN /\ ctrl' = Value(instance)
              /\ call_stack' = pop_scope(Bind(push_scope(call_stack), "this", instance))
              /\ kont' = kont
         ELSE /\ ctrl' = Eval(class_def.members[first])
              /\ call_stack' = Bind(push_scope(call_stack), "this", instance)
              /\ kont' = Append(kont, NewK(ctrl.node, class_def, first, instance))
  /\ UNCHANGED <<prog, functions, cvars, stdout, fvars>>

(* a member declaration returned:
   instance[name] = self.variables[name], then the next member *)
interpret_new_next ==
  /\ Returning("NewK")
  /\ LET members == Top.class_def.members
         name == members[Top.i].variable
         instance == SetItem(Top.instance, name, call_stack[Len(call_stack)][name])
         scope == Bind(call_stack, "this", instance)
         j == NextMember(members, Top.i + 1, DeclarationNodes)
     IN  IF j > Len(members)
         THEN /\ ctrl' = Value(instance)
              /\ call_stack' = pop_scope(scope)
              /\ kont' = Pop(kont)
         ELSE /\ ctrl' = Eval(members[j])
              /\ call_stack' = scope
              /\ kont' = Replace(kont, NewK(Top.node, Top.class_def, j, instance))
  /\ UNCHANGED <<prog, functions, cvars, stdout, fvars>>

(* a member initializer raised: finally pop_scope *)
interpret_new_raise ==
  /\ Raising("NewK")
  /\ call_stack' = pop_scope(call_stack)
  /\ kont' = Pop(kont)
  /\ UNCHANGED <<prog, ctrl, functions, cvars, stdout, fvars>>

interpret_this ==
  /\ Evaluating("ThisNode")
  /\ ctrl' = IF current_class = ""
             THEN Raise(RuntimeErrorOf("'this' can only be used inside a class"))
             ELSE Outcome(get_variable(call_stack, "this"))
  /\ UNCHANGED <<prog, kont, call_stack, functions, cvars, stdout, fvars>>

\* {'__class__': superclass_name, **this_obj}: the display starts with the
\* item '__class__': superclass_name, then every item of this_obj is stored
\* in order, its own '__class__' item into the key that is already there
super_object(superclass_name, this_obj) ==
  LET first == DictV(superclass_name, <<>>)
      unpacked == [first EXCEPT !.s = this_obj.s]
  IN  [unpacked EXCEPT !.f = this_obj.f]

interpret_super ==
  /\ Evaluating("SuperNode")
  /\ ctrl' = IF current_class = "" \/ super_class_stack = <<>>
             THEN Raise(RuntimeErrorOf(
                    "'super' can only be used inside a class with a superclass"))
             ELSE IF get_variable(call_stack, "this").exc.cls # ""
             THEN Raise(get_variable(call_stack, "this").exc)
             ELSE Value(super_object(super_class_stack[Len(super_class_stack)],
                                     get_variable(call_stack, "this").val))
  /\ UNCHANGED <<prog, kont, call_stack, functions, cvars, stdout, fvars>>

interpret_instanceof ==
  /\ Evaluating("InstanceOfNode")
  /\ kont' = Append(kont, InstanceOfK(ctrl.node))
  /\ ctrl' = Eval(ctrl.node.expression)
  /\ UNCHANGED <<prog, call_stack, functions, cvars, stdout, fvars>>

\* variant of instanceof that takes an instance of any class for an
\* instance of the named class; C12_InstanceOfClass tells it from the code
instanceof_any_class(value, type_token) ==
  CASE type_token.type = "VARIABLE" -> value.t = "dict"
    [] type_token.type = "INT" -> IsInt(value)
    [] type_token.type \in {"FLOAT", "DOUBLE"} -> value.t = "float"
    [] type_token.type = "BOOLEAN" -> value.t = "bool"
    [] type_token.type = "STRING_TYPE" -> value.t = "str"
    [] type_token.type = "ANY" -> TRUE
    [] OTHER -> FALSE

\* the isinstance tests of interpret_instanceof
instanceof(value, type_token) ==
  CASE type_token.type = "VARIABLE" -> value.t = "dict" /\ value.s = type_token.value
    [] type_token.type = "INT" -> IsInt(value)
    [] type_token.type \in {"FLOAT", "DOUBLE"} -> value.t = "float"
    [] type_token.type = "BOOLEAN" -> value.t = "bool"
    [] type_token.type = "STRING_TYPE" -> value.t = "str"
    [] type_token.type = "ANY" -> TRUE
    [] OTHER -> FALSE

interpret_instanceof_test ==
  /\ Returning("InstanceOfK")
  /\ kont' = Pop(kont)
  /\ ctrl' = Value(BoolV(instanceof(ctrl.val, Top.node.type_token)))
  /\ UNCHANGED <<prog, call_stack, functions, cvars, stdout, fvars>>

(* an exception passes through an activation that has no try statement *)
propagate ==
  /\ ctrl.m = "raise"
  /\ kont # <<>>
  /\ Top.k \in {"AssignK", "VarDeclK", "BinaryK", "IfK", "PrintK", "ThrowK",
               "InstanceOfK", "WhileK", "DoWhileK", "ClassK"}
  /\ kont' = Pop(kont)
  /\ UNCHANGED <<prog, ctrl, call_stack, functions, cvars, stdout, fvars>>

----------------------------------------------------------------------------
(* interpret_block: push_scope, the statements in order, pop_scope in finally *)
interpret_block ==
  /\ Evaluating("BlockNode")
  /\ IF ctrl.node.statements = <<>>
     THEN /\ call_stack' = pop_scope(push_scope(call_stack))
          /\ kont' = kont
          /\ ctrl' = Value(NoneV)
     ELSE /\ call_stack' = push_scope(call_stack)
          /\ kont' = Append(kont, BlockK(ctrl.node.statements, 1))
          /\ ctrl' = Eval(ctrl.node.statements[1])
  /\ UNCHANGED <<prog, functions, cvars, stdout, fvars>>

interpret_block_next ==
  /\ Returning("BlockK")
  /\ IF IsSignal(ctrl.val)
     THEN /\ call_stack' = pop_scope(call_stack)
          /\ kont' = Pop(kont)
          /\ ctrl' = Value(ctrl.val)
     ELSE IF Top.i < Len(Top.statements)
     THEN /\ call_stack' = call_stack
          /\ kont' = Replace(kont, [Top EXCEPT !.i = @ + 1])
          /\ ctrl' = Eval(Top.statements[Top.i + 1])
     ELSE /\ call_stack' = pop_scope(call_stack)
          /\ kont' = Pop(kont)
          /\ ctrl' = Value(NoneV)
  /\ UNCHANGED <<prog, functions, cvars, stdout, fvars>>

\* variant of interpret_block_raise without the `finally: self.pop_scope()`;
\* C1_ScopeBalance tells it from the code
interpret_block_raise_keeps_scope ==
  /\ Raising("BlockK")
  /\ kont' = Pop(kont)
  /\ UNCHANGED <<prog, ctrl, call_stack, functions, cvars, stdout, fvars>>

\* an exception leaves the block: `finally: self.pop_scope()`
interpret_block_raise ==
  /\ Raising("BlockK")
  /\ call_stack' = pop_scope(call_stack)
  /\ kont' = Pop(kont)
  /\ UNCHANGED <<prog, ctrl, functions, cvars, stdout, fvars>>

----------------------------------------------------------------------------
(* interpret_for.  The init clause is interpreted before push_scope; the
   loop head is `while node.cond is None or self.interpret(node.cond)`. *)
for_head(node) ==
  IF IsNone(node.cond) THEN [ctrl |-> Eval(node.body), phase |-> "body"]
  ELSE [ctrl |-> Eval(node.cond), phase |-> "cond"]

interpret_for ==
  /\ Evaluating("ForNode")
  /\ IF ~IsNone(ctrl.node.init)
     THEN /\ call_stack' = call_stack
          /\ kont' = Append(kont, ForK(ctrl.node, "init"))
          /\ ctrl' = Eval(ctrl.node.init)
     ELSE /\ call_stack' = push_scope(call_stack)
          /\ kont' = Append(kont, ForK(ctrl.node, for_head(ctrl.node).phase))
          /\ ctrl' = for_head(ctrl.node).ctrl
  /\ UNCHANGED <<prog, functions, cvars, stdout, fvars>>

\* variant of for_after_body that interprets the step twice after a
\* `continue`; C9_ForContinue tells it from the code
for_after_body_continue_steps_twice(node, result) ==
  CASE result.t = "BreakNode" -> [exit |-> TRUE, val |-> NoneV, next |-> for_head(node)]
    [] IsReturnNode(result) -> [exit |-> TRUE, val |-> result, next |-> for_head(node)]
    [] result.t = "ContinueNode" /\ ~IsNone(node.step) ->
         [exit |-> FALSE, val |-> NoneV,
          next |-> [ctrl |-> Eval(BlockNode(<<node.step, node.step>>)), phase |-> "step"]]
    [] OTHER ->
         [exit |-> FALSE, val |-> NoneV,
          next |-> IF ~IsNone(node.step)
                   THEN [ctrl |-> Eval(node.step), phase |-> "step"]
                   ELSE for_head(node)]

\* what the loop does with the result of its body
for_after_body(node, result) ==
  CASE result.t = "BreakNode" -> [exit |-> TRUE, val |-> NoneV, next |-> for_head(node)]
    [] IsReturnNode(result) -> [exit |-> TRUE, val |-> result, next |-> for_head(node)]
    [] result.t = "ContinueNode" /\ ~IsNone(node.step) ->
         \* if node.step: self.interpret(node.step); continue
         [exit |-> FALSE, val |-> NoneV,
          next |-> [ctrl |-> Eval(node.step), phase |-> "step"]]
    [] OTHER ->
         [exit |-> FALSE, val |-> NoneV,
          next |-> IF ~IsNone(node.step)
                   THEN [ctrl |-> Eval(node.step), phase |-> "step"]
                   ELSE for_head(node)]

interpret_for_resume ==
  /\ Returning("ForK")
  /\ LET node == Top.node
         exit(v) == /\ call_stack' = pop_scope(call_stack)
                    /\ kont' = Pop(kont)
                    /\ ctrl' = Value(v)
         goto(n) == /\ call_stack' = call_stack
                    /\ kont' = Replace(kont, ForK(node, n.phase))
                    /\ ctrl' = n.ctrl
     IN  CASE Top.phase = "init" ->
                /\ call_stack' = push_scope(call_stack)
                /\ kont' = Replace(kont, ForK(node, for_head(node).phase))
                /\ ctrl' = for_head(node).ctrl
           [] Top.phase = "cond" ->
                IF Truthy(ctrl.val) THEN goto([ctrl |-> Eval(node.body), phase |-> "body"])
                ELSE exit(NoneV)
           [] Top.phase = "body" ->
                IF for_after_body(node, ctrl.val).exit
                THEN exit(for_after_body(node, ctrl.val).val)
                ELSE goto(for_after_body(node, ctrl.val).next)
           [] Top.phase = "step" -> goto(for_head(node))
  /\ UNCHANGED <<prog, functions, cvars, stdout, fvars>>

(* an exception in the init clause passes through; inside the try it runs
   the finally, pop_scope *)
interpret_for_raise ==
  /\ Raising("ForK")
  /\ call_stack' = IF Top.phase = "init" THEN call_stack ELSE pop_scope(call_stack)
  /\ kont' = Pop(kont)
  /\ UNCHANGED <<prog, ctrl, functions, cvars, stdout, fvars>>

----------------------------------------------------------------------------
(* interpret_while and interpret_do_while: `while True:` around the
   condition and the body; neither pushes a scope of its own. *)
\* the condition of a while or do-while loop: it must be a bool
loop_condition(condition) ==
  IF condition.t # "bool"
  THEN [exc |-> RuntimeErrorOf("Condition must be boolean, got " \o condition.t),
        go |-> FALSE]
  ELSE [exc |-> NoExc, go |-> Truthy(condition)]

\* variant of while_after_body that hands the break signal of the body on
\* to the statement around the loop; C18_BreakEndsInnermostLoop tells it
\* from the code
while_after_body_break_escapes(result) ==
  CASE result.t = "BreakNode" -> [exit |-> TRUE, val |-> result]
    [] IsReturnNode(result) -> [exit |-> TRUE, val |-> result]
    [] OTHER -> [exit |-> FALSE, val |-> NoneV]

\* what interpret_while does with the result of its body
while_after_body(result) ==
  CASE result.t = "BreakNode" -> [exit |-> TRUE, val |-> NoneV]
    [] IsReturnNode(result) -> [exit |-> TRUE, val |-> result]
    [] OTHER -> [exit |-> FALSE, val |-> NoneV]

interpret_while ==
  /\ Evaluating("WhileNode")
  /\ kont' = Append(kont, WhileK(ctrl.node, "cond"))
  /\ ctrl' = Eval(ctrl.node.condition)
  /\ UNCHANGED <<prog, call_stack, functions, cvars, stdout, fvars>>

interpret_while_resume ==
  /\ Returning("WhileK")
  /\ LET node == Top.node
     IN  CASE Top.phase = "cond" ->
                IF loop_condition(ctrl.val).exc.cls # ""
                THEN kont' = Pop(kont) /\ ctrl' = Raise(loop_condition(ctrl.val).exc)
                ELSE IF loop_condition(ctrl.val).go
                THEN kont' = Replace(kont, WhileK(node, "body")) /\ ctrl' = Eval(node.body)
                ELSE kont' = Pop(kont) /\ ctrl' = Value(NoneV)
           [] Top.phase = "body" ->
                IF while_after_body(ctrl.val).exit
                THEN kont' = Pop(kont) /\ ctrl' = Value(while_after_body(ctrl.val).val)
                ELSE /\ kont' = Replace(kont, WhileK(node, "cond"))
                     /\ ctrl' = Eval(node.condition)
  /\ UNCHANGED <<prog, call_stack, functions, cvars, stdout, fvars>>

\* what interpret_do_while does with the result of its body: `continue`
\* starts the next round of `while True:`, the condition is not interpreted
do_while_after_body(result) ==
  CASE result.t = "BreakNode" -> [exit |-> TRUE, val |-> NoneV, next |-> "body"]
    [] IsReturnNode(result) -> [exit |-> TRUE, val |-> result, next |-> "body"]
    [] result.t = "ContinueNode" -> [exit |-> FALSE, val |-> NoneV, next |-> "body"]
    [] OTHER -> [exit |-> FALSE, val |-> NoneV, next |-> "cond"]

interpret_do_while ==
  /\ Evaluating("DoWhileNode")
  /\ kont' = Append(kont, DoWhileK(ctrl.node, "body"))
  /\ ctrl' = Eval(ctrl.node.body)
  /\ UNCHANGED <<prog, call_stack, functions, cvars, stdout, fvars>>

interpret_do_while_resume ==
  /\ Returning("DoWhileK")
  /\ LET node == Top.node
         after == do_while_after_body(ctrl.val)
     IN  CASE Top.phase = "body" ->
                IF after.exit
                THEN kont' = Pop(kont) /\ ctrl' = Value(after.val)
                ELSE /\ kont' = Replace(kont, DoWhileK(node, after.next))
                     /\ ctrl' = IF after.next = "body" THEN Eval(node.body)
                                ELSE Eval(node.condition)
           [] Top.phase = "cond" ->
                IF loop_condition(ctrl.val).exc.cls # ""
                THEN kont' = Pop(kont) /\ ctrl' = Raise(loop_condition(ctrl.val).exc)
                ELSE IF loop_condition(ctrl.val).go
                THEN kont' = Replace(kont, DoWhileK(node, "body")) /\ ctrl' = Eval(node.body)
                ELSE kont' = Pop(kont) /\ ctrl' = Value(NoneV)
  /\ UNCHANGED <<prog, call_stack, functions, cvars, stdout, fvars>>

----------------------------------------------------------------------------
(* interpret_try:
     try:      return self.interpret(node.try_block)
     except RuntimeError as e:  the first catch clause, in its own scope
     finally:  self.interpret(node.finally_block)                          *)
interpret_try ==
  /\ Evaluating("TryNode")
  /\ kont' = Append(kont, TryK(ctrl.node, "try", Value(NoneV)))
  /\ ctrl' = Eval(ctrl.node.try_block)
  /\ UNCHANGED <<prog, call_stack, functions, cvars, stdout, fvars>>

\* variant of try_finally that skips the finally block when the try/catch
\* part ended with an exception; C5_FinallyOnce tells it from the code
try_finally_skipped_on_raise(node, outcome, st) ==
  IF ~IsNone(node.finally_block) /\ outcome.m # "raise"
  THEN [kont |-> Replace(st, TryK(node, "finally", outcome)),
        ctrl |-> Eval(node.finally_block)]
  ELSE [kont |-> Pop(st), ctrl |-> outcome]

\* the finally clause: the outcome of the try/catch part is held while the
\* finally block is interpreted
try_finally(node, outcome, st) ==
  IF ~IsNone(node.finally_block)
  THEN [kont |-> Replace(st, TryK(node, "finally", outcome)),
        ctrl |-> Eval(node.finally_block)]
  ELSE [kont |-> Pop(st), ctrl |-> outcome]

\* `except RuntimeError`: the Python classes the except clause intercepts
Intercepts(exc) == exc.cls = "RuntimeError"

(* the try block, a catch body or the finally block returned *)
interpret_try_resume ==
  /\ Returning("TryK")
  /\ CASE Top.phase = "try" ->
            /\ call_stack' = call_stack
            /\ kont' = try_finally(Top.node, Value(ctrl.val), kont).kont
            /\ ctrl' = try_finally(Top.node, Value(ctrl.val), kont).ctrl
       [] Top.phase = "catch" ->
            /\ call_stack' = pop_scope(call_stack)
            /\ kont' = try_finally(Top.node, Value(ctrl.val), kont).kont
            /\ ctrl' = try_finally(Top.node, Value(ctrl.val), kont).ctrl
       [] Top.phase = "finally" ->
            \* the result of the finally block is dropped
            /\ call_stack' = call_stack
            /\ kont' = Pop(kont)
            /\ ctrl' = Top.pending
  /\ UNCHANGED <<prog, functions, cvars, stdout, fvars>>

(* an exception reaches the try statement *)
interpret_try_raise ==
  /\ Raising("TryK")
  /\ LET node == Top.node
         e == ctrl.exc
     IN  CASE Top.phase = "try" /\ Intercepts(e) /\ node.catches # <<>> ->
                LET catch == node.catches[1]
                    bound == Bind(push_scope(call_stack), catch.exception_var, StrV(e.msg))
                    tyerr == IF catch.type_token.value # ""
                             THEN check_type(StrV(e.msg), catch.type_token) ELSE NoExc
                IN  IF tyerr.cls # ""
                    THEN /\ call_stack' = pop_scope(bound)
                         /\ kont' = try_finally(node, Raise(tyerr), kont).kont
                         /\ ctrl' = try_finally(node, Raise(tyerr), kont).ctrl
                    ELSE /\ call_stack' = bound
                         /\ kont' = Replace(kont, TryK(node, "catch", Value(NoneV)))
                         /\ ctrl' = Eval(catch.body)
           [] Top.phase = "try" /\ ~(Intercepts(e) /\ node.catches # <<>>) ->
                \* no clause, or not a RuntimeError: re-raised after the finally
                /\ call_stack' = call_stack
                /\ kont' = try_finally(node, Raise(e), kont).kont
                /\ ctrl' = try_finally(node, Raise(e), kont).ctrl
           [] Top.phase = "catch" ->
                /\ call_stack' = pop_scope(call_stack)
                /\ kont' = try_finally(node, Raise(e), kont).kont
                /\ ctrl' = try_finally(node, Raise(e), kont).ctrl
           [] Top.phase = "finally" ->
                \* raised by the finally block: replaces the held outcome
                /\ call_stack' = call_stack
                /\ kont' = Pop(kont)
                /\ ctrl' = ctrl
  /\ UNCHANGED <<prog, functions, cvars, stdout, fvars>>

----------------------------------------------------------------------------
(* interpret_function_call *)
\* the arity check, push_scope, parameter binding and the start of the body
invoke(node, func, args, cs, st) ==
  IF Len(args) # Len(func.params)
  THEN [cs |-> cs, kont |-> st,
        ctrl |-> Raise(TypeErrorOf("Expected " \o ToString(Len(func.params))
                                   \o " arguments, got " \o ToString(Len(args))))]
  ELSE LET b == bind_params(func.params, args, 1, EmptyFrame)
       IN  IF b.exc.cls # ""
           THEN [cs |-> pop_scope(push_scope(cs)), kont |-> st, ctrl |-> Raise(b.exc)]
           ELSE [cs |-> Append(cs, b.frame),
                 kont |-> Append(st, CallK(node, func, "body", args)),
                 ctrl |-> Eval(func.body)]

interpret_function_call ==
  /\ Evaluating("FunctionCallNode")
  /\ LET node == ctrl.node
         func == functions[node.func]
     IN  IF IsNone(func)
         THEN /\ ctrl' = Raise(RuntimeErrorOf("Undefined function: " \o node.func))
              /\ kont' = kont
              /\ call_stack' = call_stack
         ELSE IF node.args # <<>>
         THEN /\ ctrl' = Eval(node.args[1])
              /\ kont' = Append(kont, CallK(node, func, "args", <<>>))
              /\ call_stack' = call_stack
         ELSE /\ ctrl' = invoke(node, func, <<>>, call_stack, kont).ctrl
              /\ kont' = invoke(node, func, <<>>, call_stack, kont).kont
              /\ call_stack' = invoke(node, func, <<>>, call_stack, kont).cs
  /\ UNCHANGED <<prog, functions, cvars, stdout, fvars>>

\* the end of a call whose body returned `result`
call_result(node, func, result) ==
  IF ~(func.return_type.value # "" /\ func.return_type.value # "void")
  THEN Value(NoneV)
  ELSE Raise(RuntimeErrorOf("Function " \o node.func \o " must return a value of type "
                            \o func.return_type.value))

\* the end of a call once interpret_return gave the value of a ReturnNode
call_return_value(func, return_value) ==
  IF func.return_type.value # "" /\ check_type(return_value, func.return_type).cls # ""
  THEN Raise(check_type(return_value, func.return_type))
  ELSE Value(return_value)

interpret_function_call_resume ==
  /\ Returning("CallK")
  /\ LET node == Top.node
         func == Top.func
     IN  CASE Top.phase = "args" ->
                LET args == Append(Top.vals, ctrl.val)
                IN  IF Len(args) < Len(node.args)
                    THEN /\ ctrl' = Eval(node.args[Len(args) + 1])
                         /\ kont' = Replace(kont, CallK(node, func, "args", args))
                         /\ call_stack' = call_stack
                    ELSE /\ ctrl' = invoke(node, func, args, call_stack, Pop(kont)).ctrl
                         /\ kont' = invoke(node, func, args, call_stack, Pop(kont)).kont
                         /\ call_stack' = invoke(node, func, args, call_stack, Pop(kont)).cs
           [] Top.phase = "body" /\ IsReturnNode(ctrl.val) ->
                IF IsNone(ReturnExpression(ctrl.val))
                THEN /\ ctrl' = call_return_value(func, NoneV)
                     /\ kont' = Pop(kont)
                     /\ call_stack' = pop_scope(call_stack)
                ELSE /\ ctrl' = Eval(ReturnExpression(ctrl.val))
                     /\ kont' = Replace(kont, CallK(node, func, "return", Top.vals))
                     /\ call_stack' = call_stack
           [] Top.phase = "body" /\ ~IsReturnNode(ctrl.val) ->
                /\ ctrl' = call_result(node, func, ctrl.val)
                /\ kont' = Pop(kont)
                /\ call_stack' = pop_scope(call_stack)
           [] Top.phase = "return" ->
                /\ ctrl' = call_return_value(func, ctrl.val)
                /\ kont' = Pop(kont)
                /\ call_stack' = pop_scope(call_stack)
  /\ UNCHANGED <<prog, functions, cvars, stdout, fvars>>

(* an exception while the arguments are evaluated passes through; inside the
   try it runs the finally, pop_scope *)
interpret_function_call_raise ==
  /\ Raising("CallK")
  /\ call_stack' = IF Top.phase = "args" THEN call_stack ELSE pop_scope(call_stack)
  /\ kont' = Pop(kont)
  /\ UNCHANGED <<prog, ctrl, functions, cvars, stdout, fvars>>

----------------------------------------------------------------------------
(***************************************************************************)
(* The programs interpreted.  A program is drawn from a family: a          *)
(* construct of the language around a body, the body being any statement   *)
(* list of at most MaxStmts statements out of Stmt.                        *)
(***************************************************************************)
StmtIds == 1..10
Stmt(j) ==
  CASE j = 1 -> PrintNode(StringNode("a"))
    [] j = 2 -> BreakNode
    [] j = 3 -> ContinueNode
    [] j = 4 -> ReturnNode(NumberNode(1))
    [] j = 5 -> ThrowNode(StringNode("boom"))
    [] j = 6 -> VarDeclarationNode("x", IntType, StringNode("s"))
    [] j = 7 -> AssignNode("y", NumberNode(1))
    [] j = 8 -> VarDeclarationNode("x", NoType, NumberNode(1))
    [] j = 9 -> FunctionCallNode("g", <<NumberNode(1)>>)
    [] j = 10 -> AssignNode("x", NumberNode(2))

Body(ids) == [j \in 1..Len(ids) |-> Stmt(ids[j])]
Bodies == UNION {[1..n -> StmtIds] : n \in 0..MaxStmts}

BodyFamilies ==
  {"block", "call", "for", "try", "tryf", "catch", "finally", "fortry", "calltry"}

Programs ==
  [fam : BodyFamilies, body : Bodies, n : {0}, k : {0}]
  \cup [fam : {"c9"}, body : {<<>>}, n : 0..MaxIter, k : 0..MaxIter]
  \cup [fam : {"param"}, body : {<<>>}, n : {0}, k : {0, 1, 2}]
  \cup [fam : {"c12"}, body : {<<>>}, n : 0..5, k : 0..2]
  \cup [fam : {"c13", "c15", "c19"}, body : {<<>>}, n : {0}, k : {0, 1}]
  \cup [fam : {"c22"}, body : {<<>>}, n : {0}, k : 0..2]
  \cup [fam : {"c18"}, body : {<<>>}, n : 0..2, k : 0..2]
  \cup [fam : {"c20"}, body : {<<>>}, n : 0..2, k : {0, 1}]
  \cup [fam : {"c21"}, body : {<<>>}, n : 0..3, k : 0..3]
  \cup [fam : {"c30"}, body : {<<>>}, n : {0}, k : 0..2]
  \cup [fam : {"c27"}, body : {<<>>}, n : {0, 1}, k : 0..MaxDivisor]
  \cup [fam : {"c3", "c6", "c10a", "c10b", "c10c", "catchtyped", "c14", "c16", "c17"},
        body : {<<>>}, n : {0}, k : {0}]

Mark(x) == PrintNode(StringNode(x))
DefG == FunctionDefNode("g", <<>>, NoType, BlockNode(<<>>))
Count2(body) ==
  ForNode(VarDeclarationNode("i", NoType, NumberNode(0)),
          BinaryOperationNode("LESS", VariableNode("i"), NumberNode(2)),
          AssignNode("i", BinaryOperationNode("PLUS", VariableNode("i"), NumberNode(1))),
          body)
CatchC(ty, stmts) == <<CatchNode("e", ty, BlockNode(<<Mark("C")>> \o stmts))>>
FinallyF(stmts) == BlockNode(<<Mark("F")>> \o stmts)
TryT(stmts, catches, fin) == TryNode(BlockNode(<<Mark("T")>> \o stmts), catches, fin)
Boom == ThrowNode(StringNode("boom"))

\* the values and the types of the instanceof programs
Operand(n) ==
  CASE n = 0 -> NewNode("Dog")
    [] n = 1 -> NewNode("Cat")
    [] n = 2 -> NumberNode(1)
    [] n = 3 -> StringNode("Dog")
    [] n = 4 -> NullNode
    [] n = 5 -> BooleanNode(TRUE)
TestedType(k) ==
  CASE k = 0 -> TypeToken("Dog", "VARIABLE")
    [] k = 1 -> TypeToken("Cat", "VARIABLE")
    [] k = 2 -> IntType

\* a loop of the kind `kind` (for, while, do-while) around `stmts` that
\* counts `name` from 0 and runs while name < 2; the for loop declares the
\* counter in its init clause, the other two need it declared before
CountDecl(kind, name) ==
  IF kind = 0 THEN <<>> ELSE <<VarDeclarationNode(name, NoType, NumberNode(0))>>
CountLoop(kind, name, stmts) ==
  LET below == BinaryOperationNode("LESS", VariableNode(name), NumberNode(2))
      incr == AssignNode(name, BinaryOperationNode("PLUS", VariableNode(name),
                                                   NumberNode(1)))
  IN  CASE kind = 0 ->
             ForNode(VarDeclarationNode(name, NoType, NumberNode(0)), below, incr,
                     BlockNode(stmts))
        [] kind = 1 -> WhileNode(below, BlockNode(<<incr>> \o stmts))
        [] kind = 2 -> DoWhileNode(BlockNode(<<incr>> \o stmts), below)

\* Parser.parse_declaration on  <decl_type> <name> [: <type> [?]] [= <expr>] ;
\* `annotation` is the type token (NoType when there is none), `nullable`
\* tells whether a NULLABLE token follows it: that token is consumed by
\* advance() and recorded nowhere, so the type token of the node is the
\* plain token, which has no is_nullable attribute
parse_declaration(decl_type, name, annotation, nullable, expr) ==
  LET type_token == annotation
  IN  CASE decl_type = "VAR" ->
             [exc |-> "", node |-> VarDeclarationNode(name, type_token, expr)]
        [] decl_type = "VAL" ->
             IF IsNone(expr)
             THEN [exc |-> "Val declaration requires an initializer", node |-> NoNode]
             ELSE [exc |-> "", node |-> ValDeclarationNode(name, type_token, expr)]
        [] OTHER ->
             IF IsNone(expr)
             THEN [exc |-> "Const declaration requires an initializer", node |-> NoNode]
             ELSE [exc |-> "", node |-> ConstDeclarationNode(name, type_token, expr)]

\* the annotations of the nullable-declaration programs
Annotation(n) ==
  CASE n = 0 -> IntType
    [] n = 1 -> StringType
    [] n = 2 -> VoidType

\* the conditions that are not booleans: 1, "s", 0 and null
NonBoolean(k) ==
  CASE k = 0 -> NumberNode(1)
    [] k = 1 -> StringNode("s")
    [] k = 2 -> NumberNode(0)
    [] k = 3 -> NullNode

AST(p) ==
  LET b == Body(p.body)
  IN CASE p.fam = "block" -> ProgramNode(<<DefG, BlockNode(b)>>)
       [] p.fam = "call" ->
            ProgramNode(<<DefG, FunctionDefNode("f", <<>>, NoType, BlockNode(b)),
                          PrintNode(FunctionCallNode("f", <<>>))>>)
       [] p.fam = "for" -> ProgramNode(<<DefG, Count2(BlockNode(b))>>)
       [] p.fam = "try" ->
            ProgramNode(<<DefG, TryT(b, CatchC(NoType, <<>>), FinallyF(<<>>)), Mark("E")>>)
       [] p.fam = "tryf" ->
            ProgramNode(<<DefG, TryT(b, <<>>, FinallyF(<<>>)), Mark("E")>>)
       [] p.fam = "catch" ->
            ProgramNode(<<DefG, TryT(<<Boom>>, CatchC(NoType, b), FinallyF(<<>>)),
                          Mark("E")>>)
       [] p.fam = "finally" ->
            ProgramNode(<<DefG, TryT(<<>>, CatchC(NoType, <<>>), FinallyF(b)), Mark("E")>>)
       [] p.fam = "fortry" ->
            ProgramNode(<<DefG,
              Count2(BlockNode(<<TryT(b, CatchC(NoType, <<>>), FinallyF(<<>>)),
                                 Mark("E")>>))>>)
       [] p.fam = "calltry" ->
            ProgramNode(<<DefG,
              FunctionDefNode("f", <<>>, NoType,
                BlockNode(<<TryT(b, CatchC(NoType, <<>>), FinallyF(<<>>)), Mark("E")>>)),
              FunctionCallNode("f", <<>>)>>)
       [] p.fam = "catchtyped" ->
            ProgramNode(<<TryT(<<Boom>>, CatchC(IntType, <<>>), FinallyF(<<>>)), Mark("E")>>)
       [] p.fam = "c3" ->
            \* fun f() { var x: int = 5; x = x + 1; return x; } print(f());
            ProgramNode(<<
              FunctionDefNode("f", <<>>, NoType, BlockNode(<<
                VarDeclarationNode("x", IntType, NumberNode(5)),
                AssignNode("x", BinaryOperationNode("PLUS", VariableNode("x"),
                                                    NumberNode(1))),
                ReturnNode(VariableNode("x"))>>)),
              PrintNode(FunctionCallNode("f", <<>>))>>)
       [] p.fam = "c6" ->
            \* try { throw "boom"; } catch (e) { print(e); } finally { print("done"); }
            ProgramNode(<<
              TryNode(BlockNode(<<Boom>>),
                      <<CatchNode("e", NoType, BlockNode(<<PrintNode(VariableNode("e"))>>))>>,
                      BlockNode(<<PrintNode(StringNode("done"))>>))>>)
       [] p.fam = "c9" ->
            \* for (var i = 0; i < n; i = i + 1) { if (i == k) { continue; } print(i); }
            ProgramNode(<<
              ForNode(VarDeclarationNode("i", NoType, NumberNode(0)),
                      BinaryOperationNode("LESS", VariableNode("i"), NumberNode(p.n)),
                      AssignNode("i", BinaryOperationNode("PLUS", VariableNode("i"),
                                                          NumberNode(1))),
                      BlockNode(<<
                        IfNode(BinaryOperationNode("EQUAL", VariableNode("i"),
                                                   NumberNode(p.k)),
                               BlockNode(<<ContinueNode>>), NoNode),
                        PrintNode(VariableNode("i"))>>))>>)
       [] p.fam = "c10a" ->
            \* fun f(): int { } f();
            ProgramNode(<<FunctionDefNode("f", <<>>, IntType, BlockNode(<<>>)),
                          FunctionCallNode("f", <<>>)>>)
       [] p.fam = "c10b" ->
            \* fun f(): int { return "s"; } f();
            ProgramNode(<<FunctionDefNode("f", <<>>, IntType,
                            BlockNode(<<ReturnNode(StringNode("s"))>>)),
                          FunctionCallNode("f", <<>>)>>)
       [] p.fam = "c10c" ->
            \* fun f(): int { return 1; } print(f());
            ProgramNode(<<FunctionDefNode("f", <<>>, IntType,
                            BlockNode(<<ReturnNode(NumberNode(1))>>)),
                          PrintNode(FunctionCallNode("f", <<>>))>>)
       [] p.fam = "c12" ->
            \* class Dog { } class Cat { } var x = <value>; print(x instanceof <type>);
            ProgramNode(<<
              ClassNode("Dog", "", <<>>, <<>>), ClassNode("Cat", "", <<>>, <<>>),
              VarDeclarationNode("x", NoType, Operand(p.n)),
              PrintNode(InstanceOfNode(VariableNode("x"), TestedType(p.k)))>>)
       [] p.fam = "c13" ->
            \* fun g() { print(x); }  fun f() { var x = 1; g(); }            f();
            \* fun g() { x = 2; }     fun f() { var x = 1; g(); print(x); }  f();
            ProgramNode(<<
              FunctionDefNode("g", <<>>, NoType,
                BlockNode(<<IF p.k = 0 THEN PrintNode(VariableNode("x"))
                            ELSE AssignNode("x", NumberNode(2))>>)),
              FunctionDefNode("f", <<>>, NoType,
                BlockNode(<<VarDeclarationNode("x", NoType, NumberNode(1)),
                            FunctionCallNode("g", <<>>)>>
                          \o (IF p.k = 0 THEN <<>> ELSE <<PrintNode(VariableNode("x"))>>))),
              FunctionCallNode("f", <<>>)>>)
       [] p.fam = "c14" ->
            \* var x = 1; for (var i = 0; i < 2; i = i + 1) { } print(i);
            ProgramNode(<<VarDeclarationNode("x", NoType, NumberNode(1)),
                          Count2(BlockNode(<<>>)),
                          PrintNode(VariableNode("i"))>>)
       [] p.fam = "c15" ->
            \* do { continue; } while (false); print("end");
            \* do { print("b"); } while (false); print("end");
            ProgramNode(<<
              DoWhileNode(BlockNode(<<IF p.k = 0 THEN ContinueNode ELSE Mark("b")>>),
                          BooleanNode(FALSE)),
              Mark("end")>>)
       [] p.fam = "c18" ->
            \* var i = 0; while (i < 2) { i = i + 1;
            \*   var y = 0; while (y < 2) { y = y + 1; print("in"); break; print("no"); }
            \*   print("after"); }
            \* and the same with for and do-while loops as outer and inner loop
            ProgramNode(CountDecl(p.n, "i") \o <<
              CountLoop(p.n, "i",
                CountDecl(p.k, "y") \o <<
                  CountLoop(p.k, "y", <<Mark("in"), BreakNode, Mark("no")>>),
                  Mark("after")>>)>>)
       [] p.fam = "c16" ->
            \* try { throw "boom"; } catch (e: int) { print("one"); }
            \* catch (e: string) { print("two"); } finally { print("fin"); }
            ProgramNode(<<
              TryNode(BlockNode(<<Boom>>),
                      <<CatchNode("e", IntType, BlockNode(<<Mark("one")>>)),
                        CatchNode("e", StringType, BlockNode(<<Mark("two")>>))>>,
                      BlockNode(<<Mark("fin")>>))>>)
       [] p.fam = "c17" ->
            \* var x = 1; { var x = 2; print(x); x = 3; print(x); } print(x);
            ProgramNode(<<
              VarDeclarationNode("x", NoType, NumberNode(1)),
              BlockNode(<<VarDeclarationNode("x", NoType, NumberNode(2)),
                          PrintNode(VariableNode("x")),
                          AssignNode("x", NumberNode(3)),
                          PrintNode(VariableNode("x"))>>),
              PrintNode(VariableNode("x"))>>)
       [] p.fam = "c19" ->
            \* val x = 1; x = 2; print(x);      const x = 1; x = 2; print(x);
            ProgramNode(<<
              IF p.k = 0 THEN ValDeclarationNode("x", NoType, NumberNode(1))
              ELSE ConstDeclarationNode("x", NoType, NumberNode(1)),
              AssignNode("x", NumberNode(2)),
              PrintNode(VariableNode("x"))>>)
       [] p.fam = "c20" ->
            \* var x: int = null; print(x);     var x: int? = null; print(x);
            \* and the same with string and void
            ProgramNode(<<
              parse_declaration("VAR", "x", Annotation(p.n), p.k = 1, NullNode).node,
              PrintNode(VariableNode("x"))>>)
       [] p.fam = "c21" ->
            \* if (<c>) { print("body"); }
            \* while (<c>) { print("body"); break; }
            \* do { print("body"); } while (<c>);
            \* for (; <c>; ) { print("body"); break; }
            \* each followed by print("end");
            LET c == NonBoolean(p.k)
                once == BlockNode(<<PrintNode(StringNode("body")), BreakNode>>)
            IN  ProgramNode(<<
                  CASE p.n = 0 -> IfNode(c, BlockNode(<<PrintNode(StringNode("body"))>>),
                                         NoNode)
                    [] p.n = 1 -> WhileNode(c, once)
                    [] p.n = 2 -> DoWhileNode(BlockNode(<<PrintNode(StringNode("body"))>>), c)
                    [] p.n = 3 -> ForNode(NoNode, c, NoNode, once),
                  PrintNode(StringNode("end"))>>)
       [] p.fam = "c22" ->
            \* class Animal { }
            \* fun g() { }
            \* class Dog { var x = 1; var a = g(); }
            \* fun g() { class Cat : Animal { var y = super; } print(y); }
            \* var i = new Dog();
            \* print(i);
            \* (k = 1: `this` in the place of `super`; k = 2: the second g is
            \* fun g() { throw "boom"; }).  While new Dog() interprets
            \* the member a, `this` is the Dog under construction and the
            \* definition of Cat makes Animal the top of the superclass stack.
            ProgramNode(<<
              ClassNode("Animal", "", <<>>, <<>>),
              FunctionDefNode("g", <<>>, NoType, BlockNode(<<>>)),
              ClassNode("Dog", "", <<>>,
                        <<VarDeclarationNode("x", NoType, NumberNode(1)),
                          VarDeclarationNode("a", NoType, FunctionCallNode("g", <<>>))>>),
              FunctionDefNode("g", <<>>, NoType,
                IF p.k = 2 THEN BlockNode(<<Boom>>)
                ELSE BlockNode(<<
                  ClassNode("Cat", "Animal", <<>>,
                            <<VarDeclarationNode("y", NoType,
                                IF p.k = 0 THEN SuperNode ELSE ThisNode)>>),
                  PrintNode(VariableNode("y"))>>)),
              VarDeclarationNode("i", NoType, NewNode("Dog")),
              PrintNode(VariableNode("i"))>>)
       [] p.fam = "c30" ->
            \* k = 0:  try { class Dog : Animal { var x = 1; } } catch (e) { print("caught"); }
            \* k = 1:  class Animal { }
            \*         try { class Dog : Animal, I { var x = 1; } } catch (e) { print("caught"); }
            \* k = 2:  interface I { }  class Animal { }  class Dog : Animal, I { var x = 1; }
            LET Dog(ifaces) == ClassNode("Dog", "Animal", ifaces,
                                 <<VarDeclarationNode("x", NoType, NumberNode(1))>>)
                Caught(stmt) ==
                  TryNode(BlockNode(<<stmt>>),
                          <<CatchNode("e", NoType, BlockNode(<<Mark("caught")>>))>>, NoNode)
                Animal == ClassNode("Animal", "", <<>>, <<>>)
            IN  ProgramNode(IF p.k = 0 THEN <<Caught(Dog(<<>>))>>
                            ELSE IF p.k = 1 THEN <<Animal, Caught(Dog(<<"I">>))>>
                            ELSE <<InterfaceNode("I"), Animal, Dog(<<"I">>)>>)
       [] p.fam = "c27" ->
            \* try { print(6 / k); } catch (e) { print("caught"); } print("end");
            \* and the same with 6 % k
            ProgramNode(<<
              TryNode(BlockNode(<<PrintNode(BinaryOperationNode(
                                    IF p.n = 0 THEN "DIVIDE" ELSE "MODULO",
                                    NumberNode(6), NumberNode(p.k)))>>),
                      <<CatchNode("e", NoType, BlockNode(<<Mark("caught")>>))>>, NoNode),
              Mark("end")>>)
       [] p.fam = "param" ->
            \* fun f(a: int) { print(a); } f(1) | f("s") | f(null)
            ProgramNode(<<
              FunctionDefNode("f", <<ParamNode("a", IntType, FALSE)>>, NoType,
                              BlockNode(<<PrintNode(VariableNode("a"))>>)),
              FunctionCallNode("f", <<CASE p.k = 0 -> NumberNode(1)
                                        [] p.k = 1 -> StringNode("s")
                                        [] p.k = 2 -> NullNode>>)>>)

----------------------------------------------------------------------------
InitInterpreter ==
  /\ prog \in Programs
  /\ ctrl = Eval(AST(prog))
  /\ kont = <<>>
  /\ call_stack = <<EmptyFrame>>
  /\ functions = [f \in FuncNames |-> NoNode]
  /\ classes = [c \in ClassNames |-> NoNode]
  /\ interfaces = {}
  /\ current_class = ""
  /\ super_class_stack = <<>>
  /\ stdout = <<>>

\* no Lexer has been constructed
LexerIdle ==
  /\ code = <<>>
  /\ lex_pos = 0
  /\ line = 1
  /\ column = 1
  /\ token_list = <<>>
  /\ lex_result = "idle"

\* no Parser has been constructed
ParserIdle ==
  /\ tokens = <<>>
  /\ pos = 0
  /\ current_token = "None"
  /\ parse_stack = <<>>
  /\ parse_result = "idle"

Init == InitInterpreter /\ ParserIdle /\ LexerIdle

Next ==
  \/ interpret_program
  \/ interpret_program_next
  \/ interpret_program_raise
  \/ interpret_literal
  \/ interpret_break_continue
  \/ interpret_return
  \/ interpret_variable
  \/ interpret_assign
  \/ interpret_assign_set
  \/ interpret_var_declaration
  \/ interpret_var_declaration_bind
  \/ interpret_binary_op
  \/ interpret_binary_op_operand
  \/ interpret_if
  \/ interpret_if_branch
  \/ interpret_print
  \/ interpret_print_write
  \/ interpret_throw
  \/ interpret_throw_raise
  \/ interpret_function_def
  \/ interpret_val_declaration
  \/ interpret_const_declaration
  \/ interpret_while
  \/ interpret_while_resume
  \/ interpret_do_while
  \/ interpret_do_while_resume
  \/ interpret_class_def
  \/ interpret_class_def_next
  \/ interpret_interface_def
  \/ interpret_new
  \/ interpret_new_next
  \/ interpret_new_raise
  \/ interpret_this
  \/ interpret_super
  \/ interpret_instanceof
  \/ interpret_instanceof_test
  \/ propagate
  \/ interpret_block
  \/ interpret_block_next
  \/ interpret_block_raise
  \/ interpret_for
  \/ interpret_for_resume
  \/ interpret_for_raise
  \/ interpret_try
  \/ interpret_try_resume
  \/ interpret_try_raise
  \/ interpret_function_call
  \/ interpret_function_call_resume
  \/ interpret_function_call_raise

Spec == Init /\ [][Next]_vars

Halted == ctrl.m = "halt"

\* fairness of the evaluator: an interpret call that can proceed does
LiveSpec == Spec /\ WF_vars(Next)

----------------------------------------------------------------------------
(***************************************************************************)
(* The parser.  A token is its TokenType name; "None" is the value of      *)
(* current_token past the end of the list.  The parser only ever looks at  *)
(* current_token, so the token list is drawn one token at a time: the      *)
(* token advance() moves to is chosen when advance() reads it, and the     *)
(* list ends where None is chosen.  `tokens` is the part read so far.      *)
(***************************************************************************)
TokenTypes ==
  {"SWITCH", "CASE", "DEFAULT", "COLON", "LPAREN", "RPAREN", "LBRACE",
   "RBRACE", "VARIABLE", "PLUS", "SEMICOLON", "BREAK"}

\* what tokens[pos + 1] can be
Following ==
  IF current_token # "None" /\ Len(tokens) < MaxTokens
  THEN TokenTypes \cup {"None"}
  ELSE {"None"}

advance(t) ==
  /\ pos' = pos + 1
  /\ current_token' = t
  /\ tokens' = IF t = "None" THEN tokens ELSE Append(tokens, t)

\* a running parse_* method and where it is in its body
Frame(f, pc) == [f |-> f, pc |-> pc]
PTop == parse_stack[Len(parse_stack)]
Running(f) ==
  parse_result = "running" /\ parse_stack # <<>> /\ PTop.f = f
Goto(pc) == Replace(parse_stack, Frame(PTop.f, pc))
Call(pc, callee) == Append(Goto(pc), Frame(callee, "start"))
TailCall(callee) == Replace(parse_stack, Frame(callee, "start"))
Return == Pop(parse_stack)

\* raise SyntaxError(...): nothing catches it, parse() ends
raise_SyntaxError ==
  /\ parse_result' = "SyntaxError"
  /\ parse_stack' = <<>>

\* self.expect(token_type_name), then the method goes on with stack `then`
expect(token_type_name, then) ==
  IF current_token = token_type_name
  THEN /\ \E t \in Following : advance(t)
       /\ parse_stack' = then
       /\ UNCHANGED parse_result
  ELSE /\ raise_SyntaxError
       /\ UNCHANGED <<tokens, pos, current_token>>

\* one round of `while self.current_token:`; IMPORT is not among TokenTypes
parse_program ==
  /\ Running("parse_program")
  /\ IF current_token # "None"
     THEN /\ parse_stack' = Append(parse_stack, Frame("parse_statement", "start"))
          /\ UNCHANGED parse_result
     ELSE /\ parse_result' = "ProgramNode"
          /\ parse_stack' = <<>>
  /\ UNCHANGED <<tokens, pos, current_token>>
  /\ UNCHANGED <<ivars, lvars>>

parse_statement ==
  /\ Running("parse_statement")
  /\ CASE PTop.pc = "start" /\ current_token = "None" ->
            raise_SyntaxError /\ UNCHANGED <<tokens, pos, current_token>>
       [] PTop.pc = "start" /\ current_token = "SWITCH" ->
            /\ parse_stack' = TailCall("parse_switch_statement")
            /\ UNCHANGED <<tokens, pos, current_token, parse_result>>
       [] PTop.pc = "start" /\ current_token = "BREAK" ->
            /\ \E t \in Following : advance(t)
            /\ parse_stack' = Goto("semicolon")
            /\ UNCHANGED parse_result
       [] PTop.pc = "start" /\ current_token = "LBRACE" ->
            /\ parse_stack' = TailCall("parse_block")
            /\ UNCHANGED <<tokens, pos, current_token, parse_result>>
       [] PTop.pc = "start"
          /\ current_token \notin {"None", "SWITCH", "BREAK", "LBRACE"} ->
            /\ parse_stack' = Call("semicolon", "parse_expression")
            /\ UNCHANGED <<tokens, pos, current_token, parse_result>>
       [] PTop.pc = "semicolon" -> expect("SEMICOLON", Return)
  /\ UNCHANGED <<ivars, lvars>>

parse_block ==
  /\ Running("parse_block")
  /\ CASE PTop.pc = "start" -> expect("LBRACE", Goto("loop"))
       [] PTop.pc = "loop" /\ current_token \notin {"None", "RBRACE"} ->
            /\ parse_stack' = Append(parse_stack, Frame("parse_statement", "start"))
            /\ UNCHANGED <<tokens, pos, current_token, parse_result>>
       [] PTop.pc = "loop" /\ current_token \in {"None", "RBRACE"} ->
            expect("RBRACE", Return)
  /\ UNCHANGED <<ivars, lvars>>

\* pc "loop" is the test of the while loop, pc "cases" the if/elif of its
\* body, which has no else
parse_switch_statement ==
  /\ Running("parse_switch_statement")
  /\ CASE PTop.pc = "start" -> expect("SWITCH", Goto("lparen"))
       [] PTop.pc = "lparen" -> expect("LPAREN", Call("rparen", "parse_expression"))
       [] PTop.pc = "rparen" -> expect("RPAREN", Goto("lbrace"))
       [] PTop.pc = "lbrace" -> expect("LBRACE", Goto("loop"))
       [] PTop.pc = "loop" /\ current_token \notin {"None", "RBRACE"} ->
            /\ parse_stack' = Goto("cases")
            /\ UNCHANGED <<tokens, pos, current_token, parse_result>>
       [] PTop.pc = "loop" /\ current_token \in {"None", "RBRACE"} ->
            expect("RBRACE", Return)
       [] PTop.pc = "cases" /\ current_token = "CASE" ->
            /\ \E t \in Following : advance(t)
            /\ parse_stack' = Call("colon", "parse_expression")
            /\ UNCHANGED parse_result
       [] PTop.pc = "cases" /\ current_token = "DEFAULT" ->
            /\ \E t \in Following : advance(t)
            /\ parse_stack' = Goto("colon")
            /\ UNCHANGED parse_result
       [] PTop.pc = "cases" /\ current_token \notin {"CASE", "DEFAULT"} ->
            /\ parse_stack' = Goto("loop")
            /\ UNCHANGED <<tokens, pos, current_token, parse_result>>
       [] PTop.pc = "colon" -> expect("COLON", Call("loop", "parse_block"))
  /\ UNCHANGED <<ivars, lvars>>

\* parse_expression down to parse_term: of the operators these methods test
\* for, PLUS is the one among TokenTypes
parse_expression ==
  /\ Running("parse_expression")
  /\ CASE PTop.pc = "start" ->
            /\ parse_stack' = Call("loop", "parse_primary")
            /\ UNCHANGED <<tokens, pos, current_token, parse_result>>
       [] PTop.pc = "loop" /\ current_token = "PLUS" ->
            /\ \E t \in Following : advance(t)
            /\ parse_stack' = Call("loop", "parse_primary")
            /\ UNCHANGED parse_result
       [] PTop.pc = "loop" /\ current_token # "PLUS" ->
            /\ parse_stack' = Return
            /\ UNCHANGED <<tokens, pos, current_token, parse_result>>
  /\ UNCHANGED <<ivars, lvars>>

\* parse_factor down to parse_primary; parse_primary advances before it
\* looks at the token it took
parse_primary ==
  /\ Running("parse_primary")
  /\ CASE PTop.pc = "start" /\ current_token = "None" ->
            raise_SyntaxError /\ UNCHANGED <<tokens, pos, current_token>>
       [] PTop.pc = "start" /\ current_token = "VARIABLE" ->
            /\ \E t \in Following :
                 /\ advance(t)
                 /\ parse_stack' = IF t = "LPAREN"
                                   THEN TailCall("parse_function_call")
                                   ELSE Return
            /\ UNCHANGED parse_result
       [] PTop.pc = "start" /\ current_token = "LPAREN" ->
            /\ \E t \in Following : advance(t)
            /\ parse_stack' = Call("rparen", "parse_expression")
            /\ UNCHANGED parse_result
       [] PTop.pc = "start"
          /\ current_token \notin {"None", "VARIABLE", "LPAREN"} ->
            /\ \E t \in Following : advance(t)
            /\ raise_SyntaxError
       [] PTop.pc = "rparen" -> expect("RPAREN", Return)
  /\ UNCHANGED <<ivars, lvars>>

\* COMMA is not among TokenTypes: at most one argument
parse_function_call ==
  /\ Running("parse_function_call")
  /\ CASE PTop.pc = "start" -> expect("LPAREN", Goto("args"))
       [] PTop.pc = "args" /\ current_token \notin {"None", "RPAREN"} ->
            /\ parse_stack' = Call("rparen", "parse_expression")
            /\ UNCHANGED <<tokens, pos, current_token, parse_result>>
       [] PTop.pc = "args" /\ current_token \in {"None", "RPAREN"} ->
            expect("RPAREN", Return)
       [] PTop.pc = "rparen" -> expect("RPAREN", Return)
  /\ UNCHANGED <<ivars, lvars>>

\* no Interpreter has been constructed
InterpreterIdle ==
  /\ prog = [fam |-> "none", body |-> <<>>, n |-> 0, k |-> 0]
  /\ ctrl = [m |-> "idle", node |-> NoNode, val |-> NoneV, exc |-> NoExc]
  /\ kont = <<>>
  /\ call_stack = <<EmptyFrame>>
  /\ functions = [f \in FuncNames |-> NoNode]
  /\ classes = [c \in ClassNames |-> NoNode]
  /\ interfaces = {}
  /\ current_class = ""
  /\ super_class_stack = <<>>
  /\ stdout = <<>>

\* Parser(tokens), then parse()
InitParser ==
  /\ pos = 0
  /\ current_token \in TokenTypes \cup {"None"}
  /\ tokens = IF current_token = "None" THEN <<>> ELSE <<current_token>>
  /\ parse_stack = <<Frame("parse_program", "start")>>
  /\ parse_result = "running"

ParserInit == InterpreterIdle /\ InitParser /\ LexerIdle

ParserNext ==
  \/ parse_program
  \/ parse_statement
  \/ parse_block
  \/ parse_switch_statement
  \/ parse_expression
  \/ parse_primary
  \/ parse_function_call

ParserSpec == ParserInit /\ [][ParserNext]_vars

\* a parse_* method that can take its next step does
LiveParserSpec == ParserSpec /\ WF_vars(ParserNext)

(***************************************************************************)
(* The parser as a function of the token list (src/src/parser.py).  Every  *)
(* parse_* method reads the tokens from a position and either returns a    *)
(* node, leaving the parser at the position after it, or raises a          *)
(* SyntaxError.  Here `tokens` is the whole list handed to Parser(tokens), *)
(* every token is a record of its type name and its text, and a position   *)
(* past the end stands for current_token = None.  Token positions in the   *)
(* source text are left out of the messages.                               *)
(***************************************************************************)
\* a token without its place in the source text
Tok(type, value) == [type |-> type, value |-> value]
EOF == Tok("EOF", "")
token_at(p) == IF p < Len(tokens) THEN tokens[p + 1] ELSE EOF

\* the outcome of a parse_* method: the node it returns and self.pos after
\* it, or the message of the SyntaxError it raises
Parsed(node, p) == [exc |-> "", node |-> node, pos |-> p]
SyntaxError(msg, p) == [exc |-> msg, node |-> NoNode, pos |-> p]
\* the rest of a method runs when the call before it did not raise
AndThen(r, rest(_)) == IF r.exc # "" THEN r ELSE rest(r)

\* Parser.expect: the token is returned in the place of the node
expect_token(token_type_name, p) ==
  IF token_at(p).type = token_type_name
  THEN Parsed(token_at(p), p + 1)
  ELSE SyntaxError("Expected " \o token_type_name \o ", got " \o token_at(p).type, p)

expect_one_of(token_type_names, p) ==
  IF token_at(p).type \in token_type_names
  THEN Parsed(token_at(p), p + 1)
  ELSE SyntaxError("Expected one of the type names, got " \o token_at(p).type, p)

UnaryOperationNode(op, operand, is_postfix) ==
  [k |-> "UnaryOperationNode", operator |-> op, operand |-> operand,
   is_postfix |-> is_postfix]

\* the operator tokens of the levels of the ladder
EqualityOperators == {"EQUAL", "NOT_EQUAL"}
ComparisonOperators == {"LESS", "GREATER", "LESS_EQUAL", "GREATER_EQUAL"}
TermOperators == {"PLUS", "MINUS"}
FactorOperators_with_PLUS == {"MULTIPLY", "DIVIDE", "MODULO", "PLUS"}
FactorOperators == {"MULTIPLY", "DIVIDE", "MODULO"}
UnaryOperators == {"MINUS", "NOT", "BIT_NOT"}
TypeNames == {"INT", "FLOAT", "DOUBLE", "BOOLEAN", "STRING_TYPE", "ANY", "VARIABLE"}

keyword_values ==
  {"if", "else", "while", "for", "do", "switch", "case", "default", "return",
   "fun", "class", "interface", "enum", "var", "val", "const", "break",
   "continue", "try", "catch", "finally", "throw", "true", "false", "null",
   "public", "private", "protected", "internal", "static", "new", "this",
   "super", "instanceof", "lambda", "import", "from", "as", "print"}

RECURSIVE parse_expression_tree(_)
RECURSIVE parse_unary(_)
RECURSIVE arguments(_, _)
RECURSIVE factor_loop(_)
RECURSIVE term_loop(_)
RECURSIVE comparison_loop(_)
RECURSIVE equality_loop(_)

\* `while current is COMMA: advance(); args.append(parse_expression())`
arguments(args, p) ==
  IF token_at(p).type = "COMMA"
  THEN AndThen(parse_expression_tree(p + 1),
               LAMBDA e : arguments(Append(args, e.node), e.pos))
  ELSE Parsed(args, p)

\* Parser.parse_function_call, entered at the LPAREN after func_token
parse_function_call_tree(func_token, p) ==
  AndThen(expect_token("LPAREN", p), LAMBDA l :
  AndThen(IF token_at(l.pos).type \notin {"RPAREN", "EOF"}
          THEN AndThen(parse_expression_tree(l.pos),
                       LAMBDA e : arguments(<<e.node>>, e.pos))
          ELSE Parsed(<<>>, l.pos), LAMBDA a :
  AndThen(expect_token("RPAREN", a.pos), LAMBDA r :
  Parsed(FunctionCallNode(func_token.value, a.node), r.pos))))

\* Parser.parse_primary: the token is consumed before it is looked at
parse_primary_tree(p) ==
  LET token == token_at(p)
  IN  IF token.type = "EOF" THEN SyntaxError("Expected expression, got EOF", p)
      ELSE IF token.type = "NUMBER" THEN Parsed(NumberNode(token.value), p + 1)
      ELSE IF token.type = "STRING" THEN Parsed(StringNode(token.value), p + 1)
      ELSE IF token.type \in {"TRUE", "FALSE"}
           THEN Parsed(BooleanNode(token.value), p + 1)
      ELSE IF token.type = "NULL" THEN Parsed(NullNode, p + 1)
      ELSE IF token.type = "VARIABLE"
           THEN IF token.value \in keyword_values
                THEN SyntaxError("Unexpected keyword '" \o token.value
                                   \o "' used as variable", p + 1)
                ELSE IF token_at(p + 1).type = "LPAREN"
                     THEN parse_function_call_tree(token, p + 1)
                     ELSE Parsed(VariableNode(token.value), p + 1)
      ELSE IF token.type = "LPAREN"
           THEN AndThen(parse_expression_tree(p + 1), LAMBDA e :
                AndThen(expect_token("RPAREN", e.pos), LAMBDA r :
                Parsed(e.node, r.pos)))
      ELSE SyntaxError("Unexpected token " \o token.type, p + 1)

\* Parser.parse_lambda and Parser.parse_new: a token list that holds no
\* LAMBDA and no NEW token goes through them to parse_primary
parse_lambda(p) == parse_primary_tree(p)
parse_new(p) == parse_lambda(p)

\* Parser.parse_instanceof
parse_instanceof(p) ==
  AndThen(parse_new(p), LAMBDA e :
    IF token_at(e.pos).type = "INSTANCEOF"
    THEN AndThen(expect_one_of(TypeNames, e.pos + 1), LAMBDA t :
         Parsed(InstanceOfNode(e.node, TypeToken(t.node.value, t.node.type)), t.pos))
    ELSE e)

\* Parser.parse_unary
parse_unary(p) ==
  IF token_at(p).type \in UnaryOperators
  THEN AndThen(parse_unary(p + 1), LAMBDA operand :
       Parsed(UnaryOperationNode(token_at(p).type, operand.node, FALSE), operand.pos))
  ELSE parse_instanceof(p)

\* the `while current is an operator of the level` loop of a level: expr
\* is the left operand built so far
factor_loop(expr) ==
  IF token_at(expr.pos).type \in FactorOperators
  THEN AndThen(parse_unary(expr.pos + 1), LAMBDA right :
       factor_loop(Parsed(BinaryOperationNode(token_at(expr.pos).type,
                                              expr.node, right.node), right.pos)))
  ELSE expr

\* Parser.parse_factor
parse_factor(p) == AndThen(parse_unary(p), LAMBDA expr : factor_loop(expr))

term_loop(expr) ==
  IF token_at(expr.pos).type \in TermOperators
  THEN AndThen(parse_factor(expr.pos + 1), LAMBDA right :
       term_loop(Parsed(BinaryOperationNode(token_at(expr.pos).type,
                                            expr.node, right.node), right.pos)))
  ELSE expr

\* Parser.parse_term
parse_term(p) == AndThen(parse_factor(p), LAMBDA expr : term_loop(expr))

comparison_loop(expr) ==
  IF token_at(expr.pos).type \in ComparisonOperators
  THEN AndThen(parse_term(expr.pos + 1), LAMBDA right :
       comparison_loop(Parsed(BinaryOperationNode(token_at(expr.pos).type,
                                                  expr.node, right.node), right.pos)))
  ELSE expr

\* Parser.parse_comparison
parse_comparison(p) == AndThen(parse_term(p), LAMBDA expr : comparison_loop(expr))

equality_loop(expr) ==
  IF token_at(expr.pos).type \in EqualityOperators
  THEN AndThen(parse_comparison(expr.pos + 1), LAMBDA right :
       equality_loop(Parsed(BinaryOperationNode(token_at(expr.pos).type,
                                                expr.node, right.node), right.pos)))
  ELSE expr

\* Parser.parse_equality
parse_equality(p) == AndThen(parse_comparison(p), LAMBDA expr : equality_loop(expr))

\* Parser.parse_assignment
parse_assignment(p) ==
  AndThen(parse_equality(p), LAMBDA expr :
    IF token_at(expr.pos).type = "ASSIGN"
    THEN IF expr.node.k # "VariableNode"
         THEN SyntaxError("Invalid assignment target", expr.pos + 1)
         ELSE AndThen(parse_expression_tree(expr.pos + 1), LAMBDA value :
              Parsed(AssignNode(expr.node.variable, value.node), value.pos))
    ELSE expr)

\* Parser.parse_elvis and Parser.parse_null_coalesce: a token list that
\* holds no ELVIS and no NULL_COALESCE token leaves their loops at once
parse_elvis(p) == parse_assignment(p)
parse_null_coalesce(p) == parse_elvis(p)

\* Parser.parse_expression
parse_expression_tree(p) == parse_null_coalesce(p)

Modifiers == {"PUBLIC", "PRIVATE", "PROTECTED", "INTERNAL", "STATIC"}
AnnotationNames ==
  {"INT", "FLOAT", "DOUBLE", "BOOLEAN", "STRING_TYPE", "VOID", "ANY", "VARIABLE"}

RECURSIVE parse_statement_tree(_)
RECURSIVE statements_loop(_, _)
RECURSIVE modifiers_loop(_, _, _)
RECURSIVE params_loop(_, _)
RECURSIVE interfaces_loop(_, _)

\* `while current in (<modifier tokens>): modifiers.append(current); advance()`
modifiers_loop(allowed, modifiers, p) ==
  IF token_at(p).type \in allowed
  THEN modifiers_loop(allowed, Append(modifiers, token_at(p).type), p + 1)
  ELSE Parsed(modifiers, p)

\* `[: <type> [?]]` of a declaration, a parameter or a return type: the
\* NULLABLE token is consumed and leaves no trace in the type token
type_annotation(token_type_names, p) ==
  IF token_at(p).type = "COLON"
  THEN AndThen(expect_one_of(token_type_names, p + 1), LAMBDA t :
       Parsed([type_token |-> TypeToken(t.node.value, t.node.type),
               is_nullable |-> token_at(t.pos).type = "NULLABLE"],
              IF token_at(t.pos).type = "NULLABLE" THEN t.pos + 1 ELSE t.pos))
  ELSE Parsed([type_token |-> NoType, is_nullable |-> FALSE], p)

\* `while current and current is not RBRACE: statements.append(parse_statement())`
statements_loop(statements, p) ==
  IF token_at(p).type \notin {"EOF", "RBRACE"}
  THEN AndThen(parse_statement_tree(p),
               LAMBDA s : statements_loop(Append(statements, s.node), s.pos))
  ELSE Parsed(statements, p)

\* Parser.parse_block
parse_block_tree(p) ==
  AndThen(expect_token("LBRACE", p), LAMBDA l :
  AndThen(statements_loop(<<>>, l.pos), LAMBDA s :
  AndThen(expect_token("RBRACE", s.pos), LAMBDA r :
  Parsed(BlockNode(s.node), r.pos))))

\* Parser.parse_declaration, entered at VAR, VAL or CONST
parse_declaration_tree(p) ==
  LET decl_type == token_at(p).type
  IN  AndThen(expect_token("VARIABLE", p + 1), LAMBDA variable :
      AndThen(type_annotation(AnnotationNames, variable.pos), LAMBDA t :
      AndThen(IF token_at(t.pos).type = "ASSIGN"
              THEN parse_expression_tree(t.pos + 1)
              ELSE Parsed(NoNode, t.pos), LAMBDA expr :
      AndThen(expect_token("SEMICOLON", expr.pos), LAMBDA semi :
        LET d == parse_declaration(decl_type, variable.node.value,
                                   t.node.type_token, t.node.is_nullable,
                                   expr.node)
        IN  IF d.exc # "" THEN SyntaxError(d.exc, semi.pos)
            ELSE Parsed(d.node, semi.pos)))))

\* Parser.parse_for_statement, entered at FOR.  The init is a statement and
\* consumes the semicolon that ends it; a semicolon that is current after
\* the init is consumed as well.
parse_for_statement(p) ==
  AndThen(expect_token("LPAREN", p + 1), LAMBDA l :
  AndThen(IF token_at(l.pos).type \notin {"EOF", "SEMICOLON"}
          THEN parse_statement_tree(l.pos)
          ELSE Parsed(NoNode, l.pos), LAMBDA init :
  LET q == IF token_at(init.pos).type = "SEMICOLON" THEN init.pos + 1 ELSE init.pos
  IN
  AndThen(IF token_at(q).type \notin {"EOF", "SEMICOLON"}
          THEN parse_expression_tree(q)
          ELSE Parsed(NoNode, q), LAMBDA cond :
  AndThen(expect_token("SEMICOLON", cond.pos), LAMBDA semi :
  AndThen(IF token_at(semi.pos).type \notin {"EOF", "RPAREN"}
          THEN parse_expression_tree(semi.pos)
          ELSE Parsed(NoNode, semi.pos), LAMBDA step :
  AndThen(expect_token("RPAREN", step.pos), LAMBDA r :
  AndThen(parse_block_tree(r.pos), LAMBDA body :
  Parsed(ForNode(init.node, cond.node, step.node, body.node), body.pos))))))))

\* Parser.parse_print_statement, entered at PRINT
parse_print_statement(p) ==
  AndThen(expect_token("LPAREN", p + 1), LAMBDA l :
  AndThen(parse_expression_tree(l.pos), LAMBDA expr :
  AndThen(expect_token("RPAREN", expr.pos), LAMBDA r :
  AndThen(expect_token("SEMICOLON", r.pos), LAMBDA semi :
  Parsed(PrintNode(expr.node), semi.pos)))))

\* Parser.parse_param
parse_param(p) ==
  AndThen(expect_token("VARIABLE", p), LAMBDA name :
  AndThen(type_annotation(TypeNames, name.pos), LAMBDA t :
  Parsed(ParamNode(name.node.value, t.node.type_token, t.node.is_nullable), t.pos)))

\* `while current is COMMA: advance(); params.append(parse_param())`
params_loop(params, p) ==
  IF token_at(p).type = "COMMA"
  THEN AndThen(parse_param(p + 1),
               LAMBDA x : params_loop(Append(params, x.node), x.pos))
  ELSE Parsed(params, p)

\* a node and the modifier tokens it records
WithModifiers(node, modifiers) == node @@ [modifiers |-> modifiers]

\* Parser.parse_function_def
parse_function_def(p) ==
  AndThen(modifiers_loop(Modifiers, <<>>, p), LAMBDA m :
  AndThen(expect_token("FUNCTION", m.pos), LAMBDA f :
  AndThen(expect_token("VARIABLE", f.pos), LAMBDA name :
  AndThen(expect_token("LPAREN", name.pos), LAMBDA l :
  AndThen(IF token_at(l.pos).type \notin {"EOF", "RPAREN"}
          THEN AndThen(parse_param(l.pos),
                       LAMBDA x : params_loop(<<x.node>>, x.pos))
          ELSE Parsed(<<>>, l.pos), LAMBDA params :
  AndThen(expect_token("RPAREN", params.pos), LAMBDA r :
  AndThen(type_annotation(AnnotationNames, r.pos), LAMBDA t :
  AndThen(parse_block_tree(t.pos), LAMBDA body :
  Parsed(WithModifiers(FunctionDefNode(name.node.value, params.node,
                                       t.node.type_token, body.node), m.node),
         body.pos)))))))))

\* `while current is COMMA: advance(); interfaces.append(expect(VARIABLE))`
interfaces_loop(ifaces, p) ==
  IF token_at(p).type = "COMMA"
  THEN AndThen(expect_token("VARIABLE", p + 1),
               LAMBDA x : interfaces_loop(Append(ifaces, x.node.value), x.pos))
  ELSE Parsed(ifaces, p)

\* Parser.parse_class_def
parse_class_def(p) ==
  AndThen(modifiers_loop(Modifiers \ {"STATIC"}, <<>>, p), LAMBDA m :
  AndThen(expect_token("CLASS", m.pos), LAMBDA c :
  AndThen(expect_token("VARIABLE", c.pos), LAMBDA name :
  AndThen(IF token_at(name.pos).type = "COLON"
          THEN AndThen(expect_token("VARIABLE", name.pos + 1), LAMBDA s :
               AndThen(interfaces_loop(<<>>, s.pos), LAMBDA x :
               Parsed([superclass |-> s.node.value, interfaces |-> x.node], x.pos)))
          ELSE Parsed([superclass |-> "", interfaces |-> <<>>], name.pos), LAMBDA h :
  AndThen(parse_block_tree(h.pos), LAMBDA body :
  Parsed(WithModifiers(ClassNode(name.node.value, h.node.superclass,
                                 h.node.interfaces, body.node.statements),
                       m.node), body.pos))))))

\* Parser.parse_interface_def
parse_interface_def(p) ==
  AndThen(modifiers_loop(Modifiers \ {"STATIC"}, <<>>, p), LAMBDA m :
  AndThen(expect_token("INTERFACE", m.pos), LAMBDA c :
  AndThen(expect_token("VARIABLE", c.pos), LAMBDA name :
  AndThen(parse_block_tree(name.pos), LAMBDA body :
  Parsed(WithModifiers(InterfaceNode(name.node.value), m.node), body.pos)))))

\* Parser.parse_statement: the branches of the token types that occur in
\* the token lists below
parse_statement_tree(p) ==
  LET type == token_at(p).type
  IN  IF type = "EOF" THEN SyntaxError("Unexpected end of input", p)
      ELSE IF type \in {"VAR", "VAL", "CONST"} THEN parse_declaration_tree(p)
      ELSE IF type = "FOR" THEN parse_for_statement(p)
      ELSE IF type = "FUNCTION" THEN parse_function_def(p)
      ELSE IF type = "CLASS" THEN parse_class_def(p)
      ELSE IF type = "INTERFACE" THEN parse_interface_def(p)
      ELSE IF type = "PRINT" THEN parse_print_statement(p)
      ELSE IF type = "LBRACE" THEN parse_block_tree(p)
      ELSE AndThen(parse_expression_tree(p), LAMBDA expr :
           AndThen(expect_token("SEMICOLON", expr.pos), LAMBDA semi :
           Parsed(expr.node, semi.pos)))

(***************************************************************************)
(* The token lists handed to the parser: for statements with every         *)
(* combination of init, condition and step, declarations and definitions   *)
(* behind modifiers, postfix increments and decrements, and expressions    *)
(* of up to MaxOperators binary operators.                                 *)
(***************************************************************************)
MaxOperators == 2

Sym(type) == Tok(type, "")
Var(name) == Tok("VARIABLE", name)
Num(text) == Tok("NUMBER", text)

\* for (<init> <cond> ; <step>) { }
ForInit(n) ==
  CASE n = 0 -> <<Sym("SEMICOLON")>>
    [] n = 1 -> <<Sym("VAR"), Var("i"), Sym("ASSIGN"), Num("0"), Sym("SEMICOLON")>>
    [] n = 2 -> <<Var("i"), Sym("ASSIGN"), Num("0"), Sym("SEMICOLON")>>
ForCond(b) == IF b THEN <<Var("i"), Sym("LESS"), Num("2")>> ELSE <<>>
ForStep(b) ==
  IF b THEN <<Var("i"), Sym("ASSIGN"), Var("i"), Sym("PLUS"), Num("1")>> ELSE <<>>
ForSource(init, cond, step) ==
  <<Sym("FOR"), Sym("LPAREN")>> \o ForInit(init) \o ForCond(cond)
    \o <<Sym("SEMICOLON")>> \o ForStep(step)
    \o <<Sym("RPAREN"), Sym("LBRACE"), Sym("RBRACE")>>
ForSources ==
  {ForSource(init, cond, step) : init \in 0..2, cond \in BOOLEAN, step \in BOOLEAN}

\* var x = 1;  val x = 1;  const x = 1;  fun f() { }  class A { }  interface I { }
Declared ==
  {<<Sym(d), Var("x"), Sym("ASSIGN"), Num("1"), Sym("SEMICOLON")>> :
      d \in {"VAR", "VAL", "CONST"}}
  \cup {<<Sym("FUNCTION"), Var("f"), Sym("LPAREN"), Sym("RPAREN"),
          Sym("LBRACE"), Sym("RBRACE")>>}
  \cup {<<Sym(d), Var("A"), Sym("LBRACE"), Sym("RBRACE")>> :
      d \in {"CLASS", "INTERFACE"}}
ModifierPrefixes ==
  {<<>>, <<Sym("PUBLIC"), Sym("STATIC")>>} \cup {<<Sym(m)>> : m \in Modifiers}
ModifierSources == {m \o d : m \in ModifierPrefixes, d \in Declared}

\* var i = 0; i++;   var i = 0; i--;   var i = 0; print(i++);   and the same
\* with the prefix minus in the place of the postfix operator
Postfixed(op) == <<Var("i"), Sym(op)>>
PostfixSources ==
  LET decl == <<Sym("VAR"), Var("i"), Sym("ASSIGN"), Num("0"), Sym("SEMICOLON")>>
  IN  {decl \o Postfixed(op) \o <<Sym("SEMICOLON")>> : op \in {"INCREMENT", "DECREMENT"}}
      \cup {decl \o <<Sym("PRINT"), Sym("LPAREN")>> \o Postfixed(op)
                 \o <<Sym("RPAREN"), Sym("SEMICOLON")>> : op \in {"INCREMENT", "DECREMENT"}}
      \cup {decl \o <<Sym("MINUS"), Var("i"), Sym("SEMICOLON")>>}

\* a <op> b <op> c ... ;  with at most one operand behind a prefix - or !
BinaryOperators ==
  {"EQUAL", "NOT_EQUAL", "LESS", "GREATER_EQUAL", "PLUS", "MINUS", "MULTIPLY", "MODULO"}
Prefixes == {"MINUS", "NOT"}
OperandNames == <<"a", "b", "c", "d", "e">>
\* operand j, behind the prefix when it is operand `at`
Prefixed(prefix, at, j) ==
  IF at = j THEN <<Sym(prefix), Var(OperandNames[j])>> ELSE <<Var(OperandNames[j])>>
RECURSIVE Chain(_, _, _, _)
Chain(ops, prefix, at, j) ==
  IF j > Len(ops) THEN Prefixed(prefix, at, j)
  ELSE Prefixed(prefix, at, j) \o <<Sym(ops[j])>> \o Chain(ops, prefix, at, j + 1)
ExpressionSources ==
  UNION {{Chain(ops, prefix, at, 1) \o <<Sym("SEMICOLON")>> :
            ops \in [1..n -> BinaryOperators], prefix \in Prefixes, at \in 0..(n + 1)} :
         n \in 1..MaxOperators}

Sources == ForSources \cup ModifierSources \cup PostfixSources \cup ExpressionSources

(***************************************************************************)
(* Parser.parse and Parser.parse_program over a whole token list: a round  *)
(* of `while self.current_token:` parses one statement.                    *)
(***************************************************************************)
Parsing(status, exc, statements) ==
  [status |-> status, exc |-> exc, statements |-> statements]

\* Parser.__init__
InitTreeParser ==
  /\ tokens \in Sources
  /\ pos = 0
  /\ current_token = tokens[1]
  /\ parse_stack = <<>>
  /\ parse_result = Parsing("running", "", <<>>)

\* statements.append(self.parse_statement()), or the SyntaxError it raises
parse_program_round ==
  /\ parse_result.status = "running"
  /\ token_at(pos).type # "EOF"
  /\ LET s == parse_statement_tree(pos)
     IN  /\ pos' = s.pos
         /\ current_token' = token_at(s.pos)
         /\ parse_result' =
              IF s.exc # ""
              THEN Parsing("SyntaxError", s.exc, parse_result.statements)
              ELSE Parsing("running", "", Append(parse_result.statements, s.node))
  /\ UNCHANGED <<tokens, parse_stack, ivars, lvars>>

\* return ProgramNode(imports, statements)
parse_program_return ==
  /\ parse_result.status = "running"
  /\ token_at(pos).type = "EOF"
  /\ parse_result' = Parsing("ProgramNode", "", parse_result.statements)
  /\ UNCHANGED <<tokens, pos, current_token, parse_stack, ivars, lvars>>

TreeParserInit == InterpreterIdle /\ InitTreeParser /\ LexerIdle

TreeParserNext ==
  \/ parse_program_round
  \/ parse_program_return

TreeParserSpec == TreeParserInit /\ [][TreeParserNext]_vars

----------------------------------------------------------------------------
(***************************************************************************)
(* The lexer.  Source text is a sequence of characters.  Of the token      *)
(* types of Lexer.token_order, those that can match text over Chars are    *)
(* kept, in the order of the list; "$" is a character no type matches.     *)
(* Texts are drawn from Chars, and texts of operators and quotes from      *)
(* OperatorChars.                                                          *)
(***************************************************************************)
Chars == {"a", "1", " ", "\n", "#", "=", "$"}
OperatorChars == {"a", "1", "-", ">", "'", "\n"}
Letters == {"a"}
Digits == {"1"}
Codes == UNION {[1..n -> Chars] : n \in 0..MaxCode}
OperatorCodes == UNION {[1..n -> OperatorChars] : n \in 0..MaxCode}

token_order ==
  <<"EQUAL", "DECREMENT", "SHR", "NUMBER", "STRING", "CHAR", "ASSIGN", "GREATER",
    "MINUS", "ARROW", "SPACE", "COMMENT", "VARIABLE">>

\* how many characters of s from index j on lie in set (a greedy `[...]*`)
RECURSIVE RunLen(_, _, _)
RunLen(s, j, set) ==
  IF j <= Len(s) /\ s[j] \in set THEN 1 + RunLen(s, j + 1, set) ELSE 0

\* pattern.match(substring) for re.compile('^' + regex): the length of
\* match.group(0), 0 for no match (no regex of the list matches the empty
\* string)
match(name, substring) ==
  IF substring = <<>> THEN 0
  ELSE CASE name = "EQUAL" ->      \* ==
              IF Len(substring) >= 2 /\ substring[1] = "=" /\ substring[2] = "="
              THEN 2 ELSE 0
         [] name = "DECREMENT" ->  \* --
              IF Len(substring) >= 2 /\ substring[1] = "-" /\ substring[2] = "-"
              THEN 2 ELSE 0
         [] name = "SHR" ->        \* >>
              IF Len(substring) >= 2 /\ substring[1] = ">" /\ substring[2] = ">"
              THEN 2 ELSE 0
         [] name = "NUMBER" ->     \* -?\d+(\.\d+)?([eE][+-]?\d+)?
              IF substring[1] = "-"
              THEN (IF RunLen(substring, 2, Digits) > 0
                    THEN 1 + RunLen(substring, 2, Digits) ELSE 0)
              ELSE RunLen(substring, 1, Digits)
         [] name = "STRING" ->     \* \"[^\"\n]*\"|\'[^\'\n]*\'
              LET inside == RunLen(substring, 2, (Chars \cup OperatorChars) \ {"'", "\n"})
              IN  IF substring[1] = "'" /\ Len(substring) >= inside + 2
                       /\ substring[inside + 2] = "'"
                  THEN inside + 2 ELSE 0
         [] name = "CHAR" ->       \* \'[^\']?\'
              IF substring[1] = "'" /\ Len(substring) >= 3
                   /\ substring[2] # "'" /\ substring[3] = "'" THEN 3
              ELSE IF substring[1] = "'" /\ Len(substring) >= 2 /\ substring[2] = "'"
              THEN 2 ELSE 0
         [] name = "ASSIGN" ->     \* =
              IF substring[1] = "=" THEN 1 ELSE 0
         [] name = "GREATER" ->    \* >
              IF substring[1] = ">" THEN 1 ELSE 0
         [] name = "MINUS" ->      \* -
              IF substring[1] = "-" THEN 1 ELSE 0
         [] name = "ARROW" ->      \* ->
              IF Len(substring) >= 2 /\ substring[1] = "-" /\ substring[2] = ">"
              THEN 2 ELSE 0
         [] name = "SPACE" ->      \* [ \n\t\r]+
              RunLen(substring, 1, {" ", "\n"})
         [] name = "COMMENT" ->    \* #.*
              IF substring[1] = "#"
              THEN 1 + RunLen(substring, 2, (Chars \cup OperatorChars) \ {"\n"})
              ELSE 0
         [] name = "VARIABLE" ->   \* \b[a-zA-Z_][a-zA-Z0-9_]*\b
              IF substring[1] \in Letters
              THEN 1 + RunLen(substring, 2, Letters \cup Digits) ELSE 0

\* the first type of token_order that matches, 0 for none
FirstMatch(substring) ==
  LET hits == {j \in 1..Len(token_order) : match(token_order[j], substring) > 0}
  IN IF hits = {} THEN 0 ELSE CHOOSE j \in hits : \A h \in hits : j <= h

Token(type, value, position, ln, col) ==
  [type |-> type, value |-> value, position |-> position,
   line |-> ln, column |-> col]

\* Lexer.update_position, variant that moves pos by one character whatever
\* the length of the value; C11_LexerCoverage tells it from the code
RECURSIVE update_position_by_one(_, _, _, _)
update_position_by_one(value, p, ln, col) ==
  IF value = <<>> THEN [pos |-> p, line |-> ln, column |-> col]
  ELSE IF Head(value) = "\n"
       THEN update_position_by_one(Tail(value), p + (IF Len(value) = 1 THEN 1 ELSE 0), ln + 1, 1)
       ELSE update_position_by_one(Tail(value), p + (IF Len(value) = 1 THEN 1 ELSE 0), ln, col + 1)

\* Lexer.update_position: line and column follow the characters of the
\* value, pos moves by len(value)
RECURSIVE update_position(_, _, _, _)
update_position(value, p, ln, col) ==
  IF value = <<>> THEN [pos |-> p, line |-> ln, column |-> col]
  ELSE IF Head(value) = "\n"
       THEN update_position(Tail(value), p + 1, ln + 1, 1)
       ELSE update_position(Tail(value), p + 1, ln, col + 1)

\* Lexer.next_token while text is left: the first matching type gives the
\* token, no matching type raises SyntaxError
next_token ==
  /\ lex_result = "running"
  /\ lex_pos < Len(code)
  /\ LET substring == SubSeq(code, lex_pos + 1, Len(code))
         j == FirstMatch(substring)
     IN IF j = 0
        THEN /\ lex_result' = "SyntaxError"
             /\ UNCHANGED <<lex_pos, line, column, token_list>>
        ELSE LET value == SubSeq(substring, 1, match(token_order[j], substring))
                 after == update_position(value, lex_pos, line, column)
             IN /\ token_list' = Append(token_list,
                                   Token(token_order[j], value, lex_pos, line, column))
                /\ lex_pos' = after.pos
                /\ line' = after.line
                /\ column' = after.column
                /\ UNCHANGED lex_result
  /\ UNCHANGED <<code, ivars, pvars>>

IsKept(token) == token.type \notin {"SPACE", "COMMENT"}

\* Lexer.lex_analysis once next_token returns False: SPACE and COMMENT
\* tokens are filtered out and the list is returned
lex_analysis ==
  /\ lex_result = "running"
  /\ lex_pos >= Len(code)
  /\ token_list' = SelectSeq(token_list, IsKept)
  /\ lex_result' = "tokens"
  /\ UNCHANGED <<code, lex_pos, line, column, ivars, pvars>>

\* Lexer(code), then lex_analysis()
InitLexer ==
  /\ code \in Codes
  /\ lex_pos = 0
  /\ line = 1
  /\ column = 1
  /\ token_list = <<>>
  /\ lex_result = "running"

LexerInit == InterpreterIdle /\ ParserIdle /\ InitLexer

LexerNext ==
  \/ next_token
  \/ lex_analysis

LexerSpec == LexerInit /\ [][LexerNext]_vars

\* Lexer(code) on a text of operators and quotes, then lex_analysis()
InitOperatorLexer ==
  /\ code \in OperatorCodes
  /\ lex_pos = 0
  /\ line = 1
  /\ column = 1
  /\ token_list = <<>>
  /\ lex_result = "running"

OperatorLexerInit == InterpreterIdle /\ ParserIdle /\ InitOperatorLexer

OperatorLexerSpec == OperatorLexerInit /\ [][LexerNext]_vars

----------------------------------------------------------------------------
(***************************************************************************)
(* Properties.                                                             *)
(***************************************************************************)
CountOut(x) == Cardinality({j \in 1..Len(stdout) : stdout[j] = x})
IsMark(x) == x \in {"T", "C", "F", "E"}
Marks == SelectSeq(stdout, IsMark)

\* C1: scope-stack balance.  The depth of call_stack is always one (the
\* global frame) plus the number of blocks, function calls, for-loops and
\* catch clauses that are still running: each such construct, however it
\* finishes (fallthrough, break/continue/return signal, raised error),
\* leaves the depth it found, and the global frame is never popped.
C1_ScopeBalance ==
  /\ Len(call_stack) = 1 + Cardinality({j \in 1..Len(kont) : HasScope(kont[j])})
  /\ Halted => Len(call_stack) = 1

\* an error raised by the second statement of a for-loop body inside two
\* nested scopes has left the program, and only the global frame remains
C1_Witness ==
  /\ Halted
  /\ prog.fam = "for" /\ prog.body = <<1, 5>>
  /\ ctrl.exc.cls = "RuntimeError"
  /\ Len(call_stack) = 1

\* C2: an assignment whose target is bound in no frame raises a RuntimeError
\* (undefined variable) and changes no frame: no binding of the name is
\* created, in the global frame or anywhere else.
C2_AssignUndeclared ==
  [][(Returning("AssignK") /\ Holding(call_stack, Top.node.variable) = {})
       => /\ ctrl'.m = "raise"
          /\ ctrl'.exc = RuntimeErrorOf("Undefined variable: " \o Top.node.variable)
          /\ call_stack' = call_stack
          /\ Holding(call_stack', Top.node.variable) = {}]_vars

\* `y = 1;` with no declaration of y ended the program with the error, the
\* global frame still empty
C2_Witness ==
  /\ Halted
  /\ prog.fam = "block" /\ prog.body = <<7>>
  /\ ctrl.exc = RuntimeErrorOf("Undefined variable: y")
  /\ call_stack = <<EmptyFrame>>

\* C3: a call whose body executes `return e` yields the value of e:
\* fun f() { var x: int = 5; x = x + 1; return x; } print(f()); prints 6, and
\* a body that starts with `return 1;` makes print(f()) print 1.
C3_ReturnYieldsValue ==
  /\ (Halted /\ prog.fam = "c3") => stdout = <<"6">>
  /\ (Halted /\ prog.fam = "call" /\ prog.body = <<4>>) => stdout = <<"1">>

\* C4: once a statement of a block yields a break, continue or return
\* signal (it is a break, continue or return statement, or its own result
\* is such a signal), the block evaluates no later statement and returns
\* that signal.
C4_SignalEndsBlock ==
  [][(Returning("BlockK")
      /\ (IsSignal(ctrl.val)
          \/ Top.statements[Top.i].k \in {"BreakNode", "ContinueNode", "ReturnNode"}))
       => /\ Len(kont') = Len(kont) - 1
          /\ ctrl'.m = "value"
          /\ IsSignal(ctrl'.val)]_vars

\* C5: the finally block runs exactly once for each execution of its try
\* statement, on every exit path, after the outcome of the try/catch part
\* and before the enclosing construct goes on.  Every try block of the
\* programs prints T first, every catch body C first, every finally block F
\* first and the statement after the try statement prints E.
FollowsOk(a, b) ==
  \/ a = "T" /\ b \in {"C", "F"}
  \/ a = "C" /\ b = "F"
  \/ a = "F" /\ b \in {"E", "T"}
  \/ a = "E" /\ b = "T"

C5_FinallyOnce ==
  /\ CountOut("F") <= CountOut("T")
  /\ CountOut("T") <= CountOut("F") + 1
  /\ Halted => CountOut("F") = CountOut("T")
  /\ Marks # <<>> => Marks[1] = "T"
  /\ \A j \in 1..(Len(Marks) - 1) : FollowsOk(Marks[j], Marks[j + 1])

\* the catch body itself raised, and the finally block had run once when
\* that error left the program
C5_Witness ==
  /\ Halted
  /\ prog.fam = "catch" /\ prog.body = <<5>>
  /\ ctrl.exc.cls = "RuntimeError"
  /\ stdout = <<"T", "C", "F">>

\* C6: the catch variable holds the string form of the thrown value:
\* try { throw "boom"; } catch (e) { print(e); } finally { print("done"); }
\* prints boom, then done, and no error leaves the try statement.
C6_CatchBindsThrownValue ==
  (Halted /\ prog.fam = "c6") => (stdout = <<"boom", "done">> /\ ctrl.exc.cls = "")

\* C7: a TypeError raised inside a try body (a declared type that does not
\* fit, a call with the wrong number of arguments) is intercepted by the
\* catch clause like a thrown RuntimeError: with an untyped catch clause
\* whose body only prints, no error leaves the try statement.
C7_TypeErrorCaught ==
  (Halted /\ prog.fam = "try") => ctrl.exc.cls = ""

\* C8: parse() terminates on every finite token list: it returns one
\* ProgramNode with every token consumed or raises one SyntaxError; no loop
\* of the parser goes round for ever without consuming a token, the loop
\* over a switch body included.
ParseEnded == parse_result \in {"ProgramNode", "SyntaxError"}

C8_ParsingTerminates ==
  /\ <>ParseEnded
  /\ [](parse_result = "ProgramNode"
          => (current_token = "None" /\ pos = Len(tokens) /\ parse_stack = <<>>))

\* C9: in a for-loop a `continue` of the body skips the rest of the body,
\* and the step still runs once before the condition is tested again:
\* for (var i = 0; i < n; i = i + 1) { if (i == k) { continue; } print(i); }
\* terminates having printed 0 .. n-1 without k, with i = n.
RECURSIVE PrintedUpTo(_, _)
PrintedUpTo(n, k) ==
  IF n <= 0 THEN <<>>
  ELSE IF n - 1 = k THEN PrintedUpTo(n - 1, k)
  ELSE Append(PrintedUpTo(n - 1, k), ToString(n - 1))

C9_Done ==
  /\ Halted
  /\ ctrl.exc.cls = ""
  /\ stdout = PrintedUpTo(prog.n, prog.k)
  /\ call_stack[1]["i"] = IntV(prog.n)

C9_ForContinue == (prog.fam = "c9") ~> C9_Done

\* the loop of the claim: n = 3, k = 1 printed 0 then 2
C9_Witness ==
  /\ Halted
  /\ prog.fam = "c9" /\ prog.n = 3 /\ prog.k = 1
  /\ stdout = <<"0", "2">>

End(token) == token.position + Len(token.value)

\* code[a .. b) is a row of SPACE and COMMENT matches
RECURSIVE Discarded(_, _)
Discarded(a, b) ==
  IF a >= b THEN a = b
  ELSE LET substring == SubSeq(code, a + 1, Len(code))
           j == FirstMatch(substring)
       IN /\ j # 0
          /\ token_order[j] \in {"SPACE", "COMMENT"}
          /\ Discarded(a + match(token_order[j], substring), b)

GapStart(j) == IF j = 0 THEN 0 ELSE End(token_list[j])
GapStop(j) == IF j = Len(token_list) THEN Len(code) ELSE token_list[j + 1].position

\* gap, token, gap, token, ... up to and including token j
RECURSIVE Reassembled(_)
Reassembled(j) ==
  IF j = 0 THEN <<>>
  ELSE Reassembled(j - 1)
         \o SubSeq(code, GapStart(j - 1) + 1, GapStop(j - 1))
         \o token_list[j].value

C11_LexerCoverage ==
  lex_result = "tokens" =>
    /\ \A j \in 1..Len(token_list) :
         /\ Len(token_list[j].value) > 0
         /\ token_list[j].value = SubSeq(code, token_list[j].position + 1, End(token_list[j]))
    /\ \A j \in 1..(Len(token_list) - 1) :
         /\ token_list[j].position < token_list[j + 1].position
         /\ End(token_list[j]) <= token_list[j + 1].position
    /\ \A j \in 0..Len(token_list) : Discarded(GapStart(j), GapStop(j))
    /\ Reassembled(Len(token_list))
         \o SubSeq(code, GapStart(Len(token_list)) + 1, Len(code)) = code

\* a, a comment up to the end of its line, the line end, 1: two tokens are
\* returned, at offsets 0 and 3
C11_Witness ==
  /\ lex_result = "tokens"
  /\ code = <<"a", "#", "\n", "1">>
  /\ Len(token_list) = 2
  /\ token_list[1].position = 0
  /\ token_list[2].position = 3

\* C12: instanceof with an identifier type is true exactly when the value
\* is an instance whose class is that identifier: an instance of Dog is an
\* instance of Dog and of no other class, and a number, a string, a boolean
\* and null are instances of no class.
C12_InstanceOfClass ==
  (Halted /\ prog.fam = "c12" /\ prog.k \in {0, 1}) =>
     /\ ctrl.exc.cls = ""
     /\ stdout = <<IF prog.n = prog.k THEN "True" ELSE "False">>

\* obj = new Dog(): obj instanceof Cat printed False
C12_Witness ==
  /\ Halted
  /\ prog.fam = "c12" /\ prog.n = 0 /\ prog.k = 1
  /\ call_stack[1]["x"] = ObjV("Dog")
  /\ stdout = <<"False">>

\* C13: a function body does not see the local frames of its caller. With
\* x declared only in the body of f, which calls g: a lookup of x in g
\* raises the undefined-variable error and prints nothing, and an
\* assignment to x in g leaves the x of f at its declared value 1.
C13_CalleeCannotSeeCaller ==
  /\ (prog.fam = "c13" /\ prog.k = 0) =>
        /\ stdout = <<>>
        /\ Halted => ctrl.exc = RuntimeErrorOf("Undefined variable: x")
  /\ (prog.fam = "c13" /\ prog.k = 1) =>
        \A j \in Holding(call_stack, "x") : call_stack[j]["x"] = IntV(1)

\* C14: the variable declared by the init clause of a for loop lives in the
\* loop's own frame: after
\*   var x = 1; for (var i = 0; i < 2; i = i + 1) { }
\* the enclosing frame holds x and nothing else, so print(i) after the loop
\* raises the undefined-variable error.
C14_ForInitInLoopFrame ==
  (Halted /\ prog.fam = "c14") =>
     /\ call_stack = <<[EmptyFrame EXCEPT !["x"] = IntV(1)]>>
     /\ ctrl.exc = RuntimeErrorOf("Undefined variable: i")
     /\ stdout = <<>>

\* C15: `continue` in the body of a do-while loop goes on to the loop's
\* condition: do { continue; } while (false); runs its body once and ends,
\* so the statement after the loop is reached.
C15_DoWhileContinue ==
  (prog.fam = "c15" /\ prog.k = 0) ~> (Halted /\ stdout = <<"end">>)

\* C16: the catch clauses of a try statement are tried in source order, a
\* later one when the type filter of an earlier one rejects the error, and
\* the error leaves the statement only when no clause takes it:
\*   try { throw "boom"; } catch (e: int) { print("one"); }
\*   catch (e: string) { print("two"); } finally { print("fin"); }
\* runs the second clause, then the finally block, and no error is left.
C16_CatchClausesInOrder ==
  (Halted /\ prog.fam = "c16") => (stdout = <<"two", "fin">> /\ ctrl.exc.cls = "")

\* C17: a declaration in an inner block binds in the innermost frame only:
\* in  var x = 1; { var x = 2; print(x); x = 3; print(x); } print(x);
\* the x of the enclosing frame is 1 at every moment, the block reads and
\* writes its own x (2, then 3), and after the block x reads 1 again.
C17_InnerDeclarationShadows ==
  (prog.fam = "c17") =>
     /\ call_stack[1]["x"] \in {Unbound, IntV(1)}
     /\ Len(call_stack) = 2 => call_stack[2]["x"] \in {Unbound, IntV(2), IntV(3)}
     /\ Halted => (stdout = <<"2", "3", "1">> /\ ctrl.exc.cls = "")

\* the block has ended: its x was 2, then 3, and the outer x is still 1
C17_Witness ==
  /\ Halted
  /\ prog.fam = "c17"
  /\ stdout = <<"2", "3", "1">>
  /\ call_stack = <<[EmptyFrame EXCEPT !["x"] = IntV(1)]>>

\* C18: `break` in the inner one of two nested loops ends the inner loop
\* only. With for, while and do-while loops as outer and as inner loop, an
\* outer loop of two rounds whose body is an inner loop
\*   { print("in"); break; print("no"); }
\* followed by print("after") prints in, after, in, after: the rest of the
\* inner body is skipped and the outer loop goes on with its next round.
C18_BreakEndsInnermostLoop ==
  (Halted /\ prog.fam = "c18") =>
     (stdout = <<"in", "after", "in", "after">> /\ ctrl.exc.cls = "")

\* a while loop inside a do-while loop: both rounds of the outer loop ran
C18_Witness ==
  /\ Halted
  /\ prog.fam = "c18" /\ prog.n = 2 /\ prog.k = 1
  /\ stdout = <<"in", "after", "in", "after">>
  /\ call_stack = <<[EmptyFrame EXCEPT !["i"] = IntV(2)]>>

\* C19: a name declared with val or const is immutable: in
\*   val x = 1; x = 2; print(x);     and     const x = 1; x = 2; print(x);
\* x never holds a value other than 1, and the assignment ends the program
\* with an error before anything is printed.
C19_ValConstImmutable ==
  (prog.fam = "c19") =>
     /\ call_stack[1]["x"] \in {Unbound, IntV(1)}
     /\ Halted => (ctrl.exc.cls # "" /\ stdout = <<>>)

\* C20: a declaration whose type annotation ends in `?` accepts null:
\* var x: int? = null; print(x); binds x to null and prints it; the same
\* declaration without `?` and with a type other than void ends in the
\* TypeError "Expected <type>, got None" and binds nothing.
C20_NullableAnnotation ==
  (Halted /\ prog.fam = "c20") =>
     /\ prog.k = 1 =>
          (ctrl.exc.cls = "" /\ call_stack[1]["x"] = NoneV /\ stdout = <<"None">>)
     /\ (prog.k = 0 /\ prog.n # 2) =>
          (ctrl.exc.cls = "TypeError" /\ call_stack[1]["x"] = Unbound /\ stdout = <<>>)

\* C21: a condition of an if, while, do-while or for statement that is not
\* a boolean (1, "s", 0, null) raises the RuntimeError "Condition must be
\* boolean, got <type>", and the body is not executed for that test: body is
\* printed by the do-while loop only (once, before its first test), and the
\* statement after is not reached.
C21_NonBooleanCondition ==
  (Halted /\ prog.fam = "c21") =>
     /\ ctrl.exc.cls = "RuntimeError"
     /\ stdout = IF prog.n = 2 THEN <<"body">> ELSE <<>>

\* C22: `super` yields a shallow copy of `this` that is tagged with the
\* immediate superclass, the top of the superclass stack, and has the other
\* fields of `this`; `this` itself is unchanged.  Where `this` is a Dog with
\* x = 1 and Animal is the top of the superclass stack, the value of super
\* is {'__class__': 'Animal', 'x': 1} and the object built is a Dog.
C22_SuperIsRetaggedCopy ==
  (prog.fam = "c22" /\ prog.k = 0) =>
     /\ \A j \in Holding(call_stack, "y") :
           call_stack[j]["y"] = DictV("Animal", <<<<"x", IntV(1)>>>>)
     /\ \A j \in Holding(call_stack, "this") : call_stack[j]["this"].s = "Dog"
     /\ Halted =>
          /\ ctrl.exc.cls = ""
          /\ stdout = <<"{'__class__': 'Animal', 'x': 1}",
                        "{'__class__': 'Dog', 'x': 1, 'a': None}">>

\* C30: a class definition that fails, for an undefined superclass or an
\* undefined interface, leaves the interpreter as it was: the class is not
\* in the registry, the active-class marker and the superclass stack have
\* their previous values, also after the error was caught by an enclosing
\* try/catch and the program went on to its end.
C30_FailedClassDefLeavesNoTrace ==
  (Halted /\ prog.fam = "c30" /\ prog.k \in {0, 1}) =>
     /\ ctrl.exc.cls = ""
     /\ stdout = <<"caught">>
     /\ IsNone(classes["Dog"])
     /\ current_class = ""
     /\ super_class_stack = <<>>


(***************************************************************************)
(* What the parser is to make of the token lists                           *)
(***************************************************************************)
TreeEnded == parse_result.status # "running"

\* C23: the parser accepts a for header with any combination of init,
\* condition and step left empty: for (;;), for (init; ; step),
\* for (init; cond; ), for (; cond; step) and the other four, each followed
\* by a block, parse to a For node whose init, cond and step are absent
\* exactly where the header leaves them empty.
C23_ForHeaderCombinations ==
  \A init \in 0..2, cond \in BOOLEAN, step \in BOOLEAN :
     (TreeEnded /\ tokens = ForSource(init, cond, step)) =>
        /\ parse_result.status = "ProgramNode"
        /\ Len(parse_result.statements) = 1
        /\ LET node == parse_result.statements[1]
           IN  /\ node.k = "ForNode"
               /\ IsNone(node.init) <=> (init = 0)
               /\ IsNone(node.cond) <=> ~cond
               /\ IsNone(node.step) <=> ~step

\* C24: a statement that begins with one or more of the modifiers public,
\* private, protected, internal, static and goes on with var, val, const,
\* fun, class or interface parses, and its node records the modifiers.
C24_ModifiersAccepted ==
  \A m \in ModifierPrefixes \ {<<>>}, d \in Declared :
     (TreeEnded /\ tokens = m \o d) =>
        /\ parse_result.status = "ProgramNode"
        /\ Len(parse_result.statements) = 1
        /\ LET node == parse_result.statements[1]
           IN  /\ "modifiers" \in DOMAIN node
               /\ node.modifiers = [j \in 1..Len(m) |-> m[j].type]

\* C25: a postfix ++ or -- on a variable parses: after var i = 0; the
\* statements i++; and i--; and the argument of print(i++); become a
\* postfix unary operation node of that operator on the variable i.
C25_PostfixParses ==
  \A op \in {"INCREMENT", "DECREMENT"} :
     (TreeEnded /\ \E j \in 1..Len(tokens) : tokens[j].type = op) =>
        /\ parse_result.status = "ProgramNode"
        /\ Len(parse_result.statements) = 2
        /\ LET node == parse_result.statements[2]
               unary == IF node.k = "PrintNode" THEN node.expression ELSE node
           IN  unary = UnaryOperationNode(op, VariableNode("i"), TRUE)

\* the level of a binary operator on the ladder: equality, comparison,
\* additive, multiplicative
Level(op) ==
  CASE op \in {"EQUAL", "NOT_EQUAL"} -> 1
    [] op \in {"LESS", "GREATER", "LESS_EQUAL", "GREATER_EQUAL"} -> 2
    [] op \in {"PLUS", "MINUS"} -> 3
    [] op \in {"MULTIPLY", "DIVIDE", "MODULO"} -> 4

\* the tokens of an expression tree, from left to right
RECURSIVE Leaves(_)
Leaves(node) ==
  CASE node.k = "BinaryOperationNode" ->
         Leaves(node.left_node) \o <<Sym(node.operator)>> \o Leaves(node.right_node)
    [] node.k = "UnaryOperationNode" ->
         <<Sym(node.operator)>> \o Leaves(node.operand)
    [] node.k = "VariableNode" -> <<Var(node.variable)>>

\* a tree groups by the ladder and to the left: the left operand of a
\* binary operation is of the same level or a tighter one, the right
\* operand is of a tighter level, the operand of a prefix operator is no
\* binary operation
RECURSIVE Laddered(_)
Laddered(node) ==
  CASE node.k = "BinaryOperationNode" ->
         /\ Laddered(node.left_node)
         /\ Laddered(node.right_node)
         /\ node.left_node.k = "BinaryOperationNode" =>
               Level(node.left_node.operator) >= Level(node.operator)
         /\ node.right_node.k = "BinaryOperationNode" =>
               Level(node.right_node.operator) > Level(node.operator)
    [] node.k = "UnaryOperationNode" ->
         /\ node.operand.k # "BinaryOperationNode"
         /\ Laddered(node.operand)
    [] OTHER -> TRUE

\* a token list of ExpressionSources: operands, prefix and binary operators
\* and the semicolon
IsExpression(list) ==
  \A j \in 1..Len(list) :
     list[j].type \in BinaryOperators \cup Prefixes \cup {"VARIABLE", "SEMICOLON"}

\* C26: the levels of binary operators are left-associative and respect the
\* ladder equality < comparison < additive < multiplicative, and a prefix
\* operator binds tighter than every binary one: an expression statement of
\* operands, prefix operators and binary operators parses to the one tree
\* over its tokens that groups this way, so a - b - c is (a - b) - c,
\* a + b * c is a + (b * c), a < b + c is a < (b + c) and a == b < c is
\* a == (b < c).
C26_OperatorLadder ==
  (TreeEnded /\ IsExpression(tokens)) =>
     /\ parse_result.status = "ProgramNode"
     /\ Len(parse_result.statements) = 1
     /\ Leaves(parse_result.statements[1]) = SubSeq(tokens, 1, Len(tokens) - 1)
     /\ Laddered(parse_result.statements[1])

C26_Witness ==
  /\ TreeEnded
  /\ tokens = <<Var("a"), Sym("PLUS"), Sym("MINUS"), Var("b"), Sym("MULTIPLY"),
                Var("c"), Sym("SEMICOLON")>>
  /\ parse_result.statements =
       <<BinaryOperationNode("PLUS", VariableNode("a"),
           BinaryOperationNode("MULTIPLY",
              UnaryOperationNode("MINUS", VariableNode("b"), FALSE),
              VariableNode("c")))>>


\* C27: every zero divisor raises a RuntimeError that try/catch intercepts,
\* and no other kind of error escapes a binary operation: in
\*   try { print(6 / k); } catch (e) { print("caught"); } print("end");
\* and in the same program with 6 % k, the only exception ever in flight is
\* a RuntimeError, and with k = 0 the program prints caught and end and
\* ends without an error.
C27_ZeroDivisorIsRuntimeError ==
  (prog.fam = "c27") =>
     /\ ctrl.exc.cls \in {"", "RuntimeError"}
     /\ (Halted /\ prog.k = 0) =>
          (ctrl.exc.cls = "" /\ stdout = <<"caught", "end">>)


\* the types of the tokens matched so far
TypesOf(list) == [j \in 1..Len(list) |-> list[j].type]

\* C28: a subtraction written without whitespace, x-1 or 5-3, lexes as the
\* left operand, a MINUS token and an unsigned NUMBER: the texts a-1 and
\* 1-1 give three tokens, of which the last is the number 1.
C28_SubtractionWithoutWhitespace ==
  \A operand \in {"a", "1"} :
     (lex_result = "tokens" /\ code = <<operand, "-", "1">>) =>
        /\ TypesOf(token_list) =
             <<IF operand = "a" THEN "VARIABLE" ELSE "NUMBER", "MINUS", "NUMBER">>
        /\ token_list[3].value = <<"1">>

\* a text that the regex of a token type matches as a whole
Example(kind) ==
  CASE kind = "DECREMENT" -> <<"-", "-">>
    [] kind = "SHR" -> <<">", ">">>
    [] kind = "NUMBER" -> <<"-", "1">>
    [] kind = "STRING" -> <<"'", "a", "a", "'">>
    [] kind = "CHAR" -> <<"'", "a", "'">>
    [] kind = "GREATER" -> <<">">>
    [] kind = "MINUS" -> <<"-">>
    [] kind = "ARROW" -> <<"-", ">">>
    [] kind = "SPACE" -> <<"\n">>
    [] kind = "VARIABLE" -> <<"a", "1">>
OperatorKinds ==
  {"DECREMENT", "SHR", "NUMBER", "STRING", "CHAR", "GREATER", "MINUS", "ARROW",
   "SPACE", "VARIABLE"}

\* C29: no token type of the priority list is shadowed by an earlier one:
\* a text that is one token of a type is matched as one token of that type,
\* so -> is one ARROW token and 'a' is one CHAR token.
C29_NoKindShadowed ==
  \A kind \in OperatorKinds :
     (lex_result = "running" /\ lex_pos = Len(code) /\ code = Example(kind)) =>
        token_list = <<Token(kind, code, 0, 1, 1)>>

====
